---- MODULE Spec2Model ----
(***************************************************************************)
(* Checkout / stock-consistency engine of the store service.               *)
(*                                                                         *)
(* Every repository call (one SQL statement, one cache command, one Redis  *)
(* lock command) is one atomic step; the calls of different requests       *)
(* interleave freely.  A storage call may fail at any time; the request    *)
(* deadline is one cause: from the deadline on, every storage call on the  *)
(* request's context fails, while the handler goroutine runs on to its     *)
(* end.                                                                    *)
(*                                                                         *)
(* The stock locks are redsync mutexes with a 10 s expiry.  The expiry is  *)
(* the bound after which a crashed holder's lock disappears; a call that   *)
(* is running is taken to return before its locks expire, and Unlock is    *)
(* taken to reach Redis.                                                   *)
(***************************************************************************)
EXTENDS Integers, Sequences, FiniteSets, TLC

\* ---------------------------------------------------------------- bounds
InitStock == 2
MaxQty == 2

\* ------------------------------------------------------------- the world
Products == {"pA", "pB"}
Users == {"u1", "u2"}
CheckoutCalls == {"c1", "c2"}
CancelCalls == {"x1"}
ReadCalls == {"r1"}
PayCalls == {"m1", "m2"}
SellerCalls == {"a1"}
\* the calls of the order's life taken alone: a cancellation, any seller request
LifeCancelCalls == {"x1"}
LifeSellerCalls == {"a2"}
\* the calls of the cart repository
RepoGetCalls == {"g1"}
RepoSaveCalls == {"v1"}
RepoDeleteCalls == {"d1"}
RepoCalls == RepoGetCalls \cup RepoSaveCalls \cup RepoDeleteCalls
\* the requests of one identifier through the rate limiter
LimitCalls == {"l1", "l2"}
\* a request through the Timeout middleware: the middleware and the goroutine
\* it starts for the handler
TimeoutCalls == {"t1"}
HandlerCalls == {"h1"}
\* one payment result
ResultCalls == {"m1"}
\* two cancel requests for the same order
TwinCancelCalls == {"x1", "x2"}
\* two checkout requests of the same buyer
TwinCalls == {"c1", "c3"}
\* two cart edits of buyer u1
CartCalls == {"e1", "e2"}
CartCallUser == [c \in CartCalls |-> "u1"]
\* the handlers of the two payment-result consumers: payment.success and
\* payment.failed, one message at a time each
ConsumerCalls == {"ks", "kf"}
\* a seller's product update next to one checkout
ProductCalls == {"p1"}
CatalogCheckoutCalls == {"c1"}
Calls == CheckoutCalls \cup CancelCalls \cup ReadCalls \cup PayCalls \cup SellerCalls
            \cup LifeCancelCalls \cup LifeSellerCalls \cup TwinCalls \cup ProductCalls
            \cup CartCalls \cup ConsumerCalls \cup TwinCancelCalls
            \cup RepoCalls \cup LimitCalls \cup TimeoutCalls \cup HandlerCalls

\* the users who act as sellers, the store each owns, and the store of each product
Sellers == {"s1", "s2", "s3"}
StoreOf == ("s1" :> "storeA") @@ ("s2" :> "storeB")
ProductStore == [p \in Products |-> IF p = "pA" THEN "storeA" ELSE "storeB"]

\* the buyer each checkout request is authenticated as
CallUser == [c \in CheckoutCalls \cup TwinCalls |-> IF c = "c2" THEN "u2" ELSE "u1"]

\* products.price
Price == [p \in Products |-> IF p = "pA" THEN 2 ELSE 3]

NoCache == -1
NoPre == [p \in Products |-> NoCache]
NoLock == "none"
NoOrder == 0
NoPayment == "none"
NoRequest == "none"
\* UpdateProductRequest.Stock is nil: the request does not edit the stock
NoStockEdit == -1
NoMessage == [body |-> "none", order_id |-> NoOrder]

OrderStatusPending == "pending"
OrderStatusPaid == "paid"
OrderStatusProcessing == "processing"
OrderStatusShipping == "shipping"
OrderStatusShipped == "shipped"
OrderStatusCompleted == "completed"
OrderStatusCancelled == "cancelled"
OrderStatuses == {OrderStatusPending, OrderStatusPaid, OrderStatusProcessing,
                  OrderStatusShipping, OrderStatusShipped, OrderStatusCompleted,
                  OrderStatusCancelled}
CancellableStatuses == {OrderStatusPending, OrderStatusPaid, OrderStatusProcessing}

ErrCartNotFound == "cart not found"
ErrCartEmpty == "cart is empty"
ErrCheckoutUnavailable == "failed to process checkout, please try again"
ErrProductNotFound == "product not found"
ErrInsufficientStock == "insufficient stock"
ErrCheckoutFailed == "failed to process checkout"
ErrCreateOrder == "failed to create order"
ErrOrderNotFound == "order not found"
ErrForbidden == "forbidden"
ErrCannotCancel == "cannot cancel order"
ErrCancelFailed == "failed to cancel order"
ErrUpdatePayment == "failed to update payment"
ErrUpdateStatus == "failed to update order status"
ErrNoTransition == "cannot transition from status"
ErrInvalidTransition == "invalid status transition"
ErrStoreNotFound == "store not found"
ErrForbiddenStore == "forbidden: no items from your store in this order"
ErrInvalidProductID == "invalid product_id"
ErrQuantity == "quantity must be greater than 0"
ErrCartLock == "failed to acquire cart lock, please try again"
ErrLoadCart == "failed to load cart"
ErrItemNotFound == "item not found in cart"
ErrSaveCart == "failed to save cart"
ErrStoreNotFoundForUser == "store not found for this user"
ErrNotProductOwner == "forbidden: not product owner"
ErrUpdateProduct == "failed to update product"
Ok == "ok"

PaymentStatusPending == "pending"
PaymentStatusSuccess == "success"
PaymentStatusFailed == "failed"

VARIABLES
    stock,      \* products.stock, the durable column
    cache,      \* the product cache entry "product:<id>": the stock it carries
    lock,       \* the Redis key "stock_lock:<id>": the call that holds it
    carts,      \* the cart of each buyer
    orders,     \* the orders table, in creation order
    pc,         \* where each call is
    idx,        \* the line a call's current loop is at
    lines,      \* the cart (Checkout) or the order items (CancelOrder) a call loaded
    snapshots,  \* Checkout: the itemSnapshot list of the validation phase
    totalAmount,\* Checkout: the running order total
    result,     \* the error or Ok a call returned
    oid,        \* the order a call created (Checkout) or works on (CancelOrder)
    got,        \* CancelOrder / product read: the stock of the product record read
    payments,   \* the payments table: the status of each order's payment record
    success,    \* ProcessPaymentResult: the success flag of the event handled
    target,     \* UpdateOrderStatus: the status requested
    loaded,     \* ProcessPaymentResult: the status of the order FindByID loaded
    caller,     \* CancelOrder: the userID, UpdateOrderStatus: the sellerID of the call
    cartLock,   \* the Redis key "cart_lock:<userID>": the call that holds it
    req,        \* the request a cart or product call was made with
    message,    \* the message each payment-result consumer has in flight
    pre,        \* history: the durable stock a checkout's apply write of a product found
    wrote,      \* history: what a call has written so far, and "skip" for a
                \* CancelOrder that met a line's lock held by another call
    cartCache,  \* the cart cache entry "cart:<userID>" of each buyer
    wroteHeader,\* timeoutWriter.wroteHeader of the request in the Timeout middleware
    timedOut,   \* timeoutWriter.timedOut
    sent,       \* what the request's underlying ResponseWriter has been given
    headers,    \* the goroutines that are writing the response's header map
    zset,       \* the sorted set "rate_limit:<type>:<identifier>": its members
    now,        \* time.Now().UnixMilli()
    passed      \* history: per millisecond read by allow, the requests let through
                \* after a pipeline that succeeded

payVars == <<payments, success, target>>
frame == <<lines, snapshots, totalAmount, got, pre, loaded>>
edgeVars == <<cartLock, req, message>>
webVars == <<wroteHeader, timedOut, sent, headers>>
limitVars == <<zset, now, passed>>
sideVars == <<cartCache, webVars, limitVars>>

vars == <<stock, cache, lock, carts, orders, pc, idx, lines, snapshots,
          totalAmount, result, oid, got, payments, success, target, loaded, caller,
          cartLock, req, message, pre, wrote, cartCache, wroteHeader, timedOut,
          sent, headers, zset, now, passed>>

\* the last millisecond of the clock
MaxClock == 3

\* no entry under the cart key
NoCart == [present |-> FALSE, items |-> <<>>]

\* nothing cached, no response started, the sorted set empty
InitSide ==
    /\ cartCache = [u \in Users |-> NoCart]
    /\ wroteHeader = FALSE
    /\ timedOut = FALSE
    /\ sent = <<>>
    /\ headers = {}
    /\ zset = {}
    /\ now = 0
    /\ passed = [t \in 0..MaxClock |-> 0]

\* ---------------------------------------------------------------- carts
RECURSIVE SeqsUpTo(_, _)
SeqsUpTo(S, n) ==
    IF n = 0 THEN {<<>>}
    ELSE LET shorter == SeqsUpTo(S, n - 1)
         IN  shorter \cup {Append(s, x) : s \in {t \in shorter : Len(t) = n - 1}, x \in S}

CartLines == [product : Products, quantity : 1..MaxQty]

\* AddItem merges a product already in the cart, so a cart has one line per product
Carts == {s \in SeqsUpTo(CartLines, Cardinality(Products)) :
            \A i, j \in 1..Len(s) : i # j => s[i].product # s[j].product}

\* the carts the buyers start with: u1 has put pA, then pB, in the cart; u2 has
\* an empty cart, or has put pB, then pA, in it
InitCarts(u) ==
    IF u = "u1"
    THEN {s \in Carts : Len(s) = 2 /\ s[1].product = "pA"}
    ELSE {s \in Carts : Len(s) = 0 \/ (Len(s) = 2 /\ s[1].product = "pB")}

\* ----------------------------------------------------- product repository
\* productRepository.FindByID: the cached record when there is one, else the row,
\* which is then cached
FindByIDStock(p) == IF cache[p] # NoCache THEN cache[p] ELSE stock[p]
FindByIDCache(p) == IF cache[p] # NoCache THEN cache ELSE [cache EXCEPT ![p] = stock[p]]

\* productRepository.UpdateStock: write the column, then drop the cached record
UpdateStockRow(st, p, quantity) == [st EXCEPT ![p] = quantity]
UpdateStockCache(ch, p) == [ch EXCEPT ![p] = NoCache]

UnlockNone(c) == lock

\* the deferred loop over mutexes: every lock the call holds is released
UnlockAll(c) == [p \in Products |-> IF lock[p] = c THEN NoLock ELSE lock[p]]

LockFreeAlways(p) == TRUE

\* mutex.Lock succeeds when the key is not set
LockFree(p) == lock[p] = NoLock

ReleaseNone(c) == lock

\* the loop over mutexes after a failed Lock: the locks taken so far are released
ReleaseOnLockFail(c) == UnlockAll(c)

\* ------------------------------------------------------------- Checkout
SufficientUnchecked(productStock, quantity) == TRUE

\* the sufficiency check of the validation phase
Sufficient(productStock, quantity) == ~(productStock < quantity)

NewStock(productStock, quantity) == productStock - quantity

\* the line subtotal: the product's price, not the cart line's
Subtotal(p, line) == Price[p] * line.quantity

\* the total the validation loop accumulates over the first n lines
RECURSIVE SumTotal(_, _)
SumTotal(cart, n) ==
    IF n = 0 THEN 0 ELSE SumTotal(cart, n - 1) + Subtotal(cart[n].product, cart[n])

\* the quantity of product p in a cart or in an order's items
RECURSIVE QuantityUpTo(_, _, _)
QuantityUpTo(items, p, n) ==
    IF n = 0 THEN 0
    ELSE QuantityUpTo(items, p, n - 1) + (IF items[n].product = p THEN items[n].quantity ELSE 0)
QuantityIn(items, p) == QuantityUpTo(items, p, Len(items))

AfterLineInterleaved(phase, i, n) ==
    IF phase = "validate" THEN <<"apply", i>>
    ELSE IF i < n THEN <<"validate", i + 1>> ELSE <<"create", 0>>

\* the validation loop runs over every line, then the apply loop over every snapshot
AfterLine(phase, i, n) ==
    IF phase = "validate"
    THEN IF i < n THEN <<"validate", i + 1>> ELSE <<"apply", 1>>
    ELSE IF i < n THEN <<"apply", i + 1>> ELSE <<"create", 0>>

\* the snapshots the rollback loop after a failed write of line i goes over
RollbackRange(i) == 1..(i - 1)

\* the rollback loops: each snapshot's product is set back to the stock read in
\* the validation phase; a rollback write that fails is logged and skipped
RECURSIVE Rollback(_, _, _)
Rollback(st, snaps, okset) ==
    IF okset = {} THEN st
    ELSE LET j == CHOOSE k \in okset : \A m \in okset : k <= m
         IN  Rollback(UpdateStockRow(st, snaps[j].product, snaps[j].stock),
                      snaps, okset \ {j})

RECURSIVE RollbackCache(_, _, _)
RollbackCache(ch, snaps, okset) ==
    IF okset = {} THEN ch
    ELSE LET j == CHOOSE k \in okset : TRUE
         IN  RollbackCache(UpdateStockCache(ch, snaps[j].product), snaps, okset \ {j})

\* a call returns: its result is kept, its frame is gone
Finish(c, res) ==
    /\ pc' = [pc EXCEPT ![c] = "done"]
    /\ result' = [result EXCEPT ![c] = res]
    /\ lines' = [lines EXCEPT ![c] = <<>>]
    /\ snapshots' = [snapshots EXCEPT ![c] = <<>>]
    /\ totalAmount' = [totalAmount EXCEPT ![c] = 0]
    /\ got' = [got EXCEPT ![c] = NoCache]
    /\ pre' = [pre EXCEPT ![c] = NoPre]
    /\ loaded' = [loaded EXCEPT ![c] = ""]

\* cartRepo.GetCart, and the empty-cart check
CheckoutGetCart(c) ==
    /\ pc[c] = "idle"
    /\ carts[CallUser[c]] # <<>>
    /\ lines' = [lines EXCEPT ![c] = carts[CallUser[c]]]
    /\ pc' = [pc EXCEPT ![c] = "lock"]
    /\ idx' = [idx EXCEPT ![c] = 1]
    /\ UNCHANGED <<payVars, stock, cache, lock, carts, orders, snapshots,
                   totalAmount, result, oid, got, pre, wrote>>
    /\ UNCHANGED loaded
    /\ UNCHANGED caller
    /\ UNCHANGED edgeVars
    /\ UNCHANGED sideVars

CheckoutNoCartAny(c) ==
    /\ pc[c] = "idle"
    /\ \/ Finish(c, ErrCartEmpty)
       \/ Finish(c, ErrCartNotFound)
    /\ UNCHANGED <<payVars, stock, cache, lock, carts, orders, idx, oid, wrote>>
    /\ UNCHANGED caller
    /\ UNCHANGED edgeVars
    /\ UNCHANGED sideVars

\* cartRepo.GetCart fails, or the cart has no items
CheckoutNoCart(c) ==
    /\ pc[c] = "idle"
    /\ \/ /\ carts[CallUser[c]] = <<>>
          /\ Finish(c, ErrCartEmpty)
       \/ Finish(c, ErrCartNotFound)
    /\ UNCHANGED <<payVars, stock, cache, lock, carts, orders, idx, oid, wrote>>
    /\ UNCHANGED caller
    /\ UNCHANGED edgeVars
    /\ UNCHANGED sideVars

\* mutex.Lock of the current line's product succeeds
CheckoutLock(c) ==
    /\ pc[c] = "lock"
    /\ LET p == lines[c][idx[c]].product
       IN  /\ LockFree(p)
           /\ lock' = [lock EXCEPT ![p] = c]
    /\ IF idx[c] < Len(lines[c])
       THEN idx' = [idx EXCEPT ![c] = idx[c] + 1] /\ UNCHANGED pc
       ELSE idx' = [idx EXCEPT ![c] = 1] /\ pc' = [pc EXCEPT ![c] = "validate"]
    /\ UNCHANGED <<payVars, stock, cache, carts, orders, lines, snapshots,
                   totalAmount, result, oid, got, pre, wrote>>
    /\ UNCHANGED loaded
    /\ UNCHANGED caller
    /\ UNCHANGED edgeVars
    /\ UNCHANGED sideVars

CheckoutLockWait(c) ==
    /\ pc[c] = "lock"
    /\ LockFree(lines[c][idx[c]].product)
    /\ lock' = ReleaseOnLockFail(c)
    /\ Finish(c, ErrCheckoutUnavailable)
    /\ UNCHANGED <<payVars, stock, cache, carts, orders, idx, oid, wrote>>
    /\ UNCHANGED caller
    /\ UNCHANGED edgeVars
    /\ UNCHANGED sideVars

\* mutex.Lock fails (the key stayed taken through the retries, or Redis is
\* unreachable): the locks taken so far are released
CheckoutLockFail(c) ==
    /\ pc[c] = "lock"
    /\ lock' = ReleaseOnLockFail(c)
    /\ Finish(c, ErrCheckoutUnavailable)
    /\ UNCHANGED <<payVars, stock, cache, carts, orders, idx, oid, wrote>>
    /\ UNCHANGED caller
    /\ UNCHANGED edgeVars
    /\ UNCHANGED sideVars

\* validation of the current line: FindByID succeeds and the stock suffices
CheckoutValidate(c) ==
    /\ pc[c] = "validate"
    /\ LET line == lines[c][idx[c]]
           p == line.product
           productStock == FindByIDStock(p)
           next == AfterLine("validate", idx[c], Len(lines[c]))
       IN  /\ Sufficient(productStock, line.quantity)
           /\ cache' = FindByIDCache(p)
           /\ snapshots' = [snapshots EXCEPT ![c] = Append(@,
                              [product |-> p, stock |-> productStock,
                               quantity |-> line.quantity, price |-> Price[p],
                               newStock |-> NewStock(productStock, line.quantity)])]
           /\ totalAmount' = [totalAmount EXCEPT ![c] = @ + Subtotal(p, line)]
           /\ pc' = [pc EXCEPT ![c] = next[1]]
           /\ idx' = [idx EXCEPT ![c] = next[2]]
    /\ UNCHANGED <<payVars, stock, lock, carts, orders, lines, result, oid, got,
                   pre, wrote>>
    /\ UNCHANGED loaded
    /\ UNCHANGED caller
    /\ UNCHANGED edgeVars
    /\ UNCHANGED sideVars

\* validation of the current line: the stock read is below the quantity
CheckoutInsufficient(c) ==
    /\ pc[c] = "validate"
    /\ LET line == lines[c][idx[c]]
       IN  /\ ~Sufficient(FindByIDStock(line.product), line.quantity)
           /\ cache' = FindByIDCache(line.product)
    /\ lock' = UnlockAll(c)
    /\ Finish(c, ErrInsufficientStock)
    /\ UNCHANGED <<payVars, stock, carts, orders, idx, oid, wrote>>
    /\ UNCHANGED caller
    /\ UNCHANGED edgeVars
    /\ UNCHANGED sideVars

\* validation of the current line: FindByID fails
CheckoutProductNotFound(c) ==
    /\ pc[c] = "validate"
    /\ lock' = UnlockAll(c)
    /\ Finish(c, ErrProductNotFound)
    /\ UNCHANGED <<payVars, stock, cache, carts, orders, idx, oid, wrote>>
    /\ UNCHANGED caller
    /\ UNCHANGED edgeVars
    /\ UNCHANGED sideVars

\* apply phase: UpdateStock of the current snapshot succeeds
CheckoutApply(c) ==
    /\ pc[c] = "apply"
    /\ LET snap == snapshots[c][idx[c]]
           next == AfterLine("apply", idx[c], Len(lines[c]))
       IN  /\ stock' = UpdateStockRow(stock, snap.product, snap.newStock)
           /\ cache' = UpdateStockCache(cache, snap.product)
           /\ pre' = [pre EXCEPT ![c][snap.product] = stock[snap.product]]
           /\ pc' = [pc EXCEPT ![c] = next[1]]
           /\ idx' = [idx EXCEPT ![c] = next[2]]
    /\ wrote' = [wrote EXCEPT ![c] = @ \cup {"stock"}]
    /\ UNCHANGED <<payVars, lock, carts, orders, lines, snapshots, totalAmount,
                   result, oid, got>>
    /\ UNCHANGED loaded
    /\ UNCHANGED caller
    /\ UNCHANGED edgeVars
    /\ UNCHANGED sideVars

\* apply phase: UpdateStock of the current snapshot fails; the snapshots before
\* it are rolled back, each rollback write succeeding or not
CheckoutApplyFail(c) ==
    /\ pc[c] = "apply"
    /\ \E okset \in SUBSET RollbackRange(idx[c]) :
          /\ stock' = Rollback(stock, snapshots[c], okset)
          /\ cache' = RollbackCache(cache, snapshots[c], okset)
    /\ lock' = UnlockAll(c)
    /\ Finish(c, ErrCheckoutFailed)
    /\ UNCHANGED <<payVars, carts, orders, idx, oid, wrote>>
    /\ UNCHANGED caller
    /\ UNCHANGED edgeVars
    /\ UNCHANGED sideVars

\* the items of the order: the snapshots' order items, in order
OrderItems(snaps) ==
    [i \in 1..Len(snaps) |-> [product |-> snaps[i].product,
                              quantity |-> snaps[i].quantity,
                              price |-> snaps[i].price]]

\* commit phase: orderRepo.Create succeeds
CheckoutCreate(c) ==
    /\ pc[c] = "create"
    /\ orders' = Append(orders, [user |-> CallUser[c],
                                 status |-> OrderStatusPending,
                                 total |-> totalAmount[c],
                                 items |-> OrderItems(snapshots[c])])
    /\ oid' = [oid EXCEPT ![c] = Len(orders) + 1]
    /\ wrote' = [wrote EXCEPT ![c] = @ \cup {"order"}]
    /\ pc' = [pc EXCEPT ![c] = "clear"]
    /\ UNCHANGED <<payVars, stock, cache, lock, carts, idx, lines, snapshots,
                   totalAmount, result, got, pre>>
    /\ UNCHANGED loaded
    /\ UNCHANGED caller
    /\ UNCHANGED edgeVars
    /\ UNCHANGED sideVars

\* commit phase: orderRepo.Create fails; every snapshot is rolled back, each
\* rollback write succeeding or not
CheckoutCreateFail(c) ==
    /\ pc[c] = "create"
    /\ \E okset \in SUBSET (1..Len(snapshots[c])) :
          /\ stock' = Rollback(stock, snapshots[c], okset)
          /\ cache' = RollbackCache(cache, snapshots[c], okset)
    /\ lock' = UnlockAll(c)
    /\ Finish(c, ErrCreateOrder)
    /\ UNCHANGED <<payVars, carts, orders, idx, oid, wrote>>
    /\ UNCHANGED caller
    /\ UNCHANGED edgeVars
    /\ UNCHANGED sideVars

CheckoutClearCartFatal(c) ==
    /\ pc[c] = "clear"
    /\ \/ /\ carts' = [carts EXCEPT ![CallUser[c]] = <<>>]
          /\ wrote' = [wrote EXCEPT ![c] = @ \cup {"cart"}]
          /\ pc' = [pc EXCEPT ![c] = "publish"]
          /\ UNCHANGED <<lock, result, frame>>
       \/ /\ lock' = UnlockAll(c)
          /\ Finish(c, ErrCheckoutFailed)
          /\ UNCHANGED <<carts, wrote>>
    /\ UNCHANGED <<payVars, stock, cache, orders, idx, oid>>
    /\ UNCHANGED caller
    /\ UNCHANGED edgeVars
    /\ UNCHANGED sideVars

\* cleanup phase: cartRepo.DeleteCart; a failure is logged only
CheckoutClearCart(c) ==
    /\ pc[c] = "clear"
    /\ \/ /\ carts' = [carts EXCEPT ![CallUser[c]] = <<>>]
          /\ wrote' = [wrote EXCEPT ![c] = @ \cup {"cart"}]
       \/ UNCHANGED <<carts, wrote>>
    /\ pc' = [pc EXCEPT ![c] = "publish"]
    /\ UNCHANGED <<payVars, stock, cache, lock, orders, idx, lines, snapshots,
                   totalAmount, result, oid, got, pre>>
    /\ UNCHANGED loaded
    /\ UNCHANGED caller
    /\ UNCHANGED edgeVars
    /\ UNCHANGED sideVars

\* notification phase and return: Publish sends the order.created event or
\* fails, which is logged only: both outcomes leave the service in the same
\* state; the deferred unlock runs
CheckoutReturn(c) ==
    /\ pc[c] = "publish"
    /\ lock' = UnlockAll(c)
    /\ Finish(c, Ok)
    /\ UNCHANGED <<payVars, stock, cache, carts, orders, idx, oid, wrote>>
    /\ UNCHANGED caller
    /\ UNCHANGED edgeVars
    /\ UNCHANGED sideVars

\* ---------------------------------------------------------- CancelOrder
CancelOrderCheckStatusFirst(order, user) ==
    IF order.status \notin CancellableStatuses THEN ErrCannotCancel
    ELSE IF order.user # user THEN ErrForbidden
    ELSE Ok

\* the error of the owner check and of the status check, in that order, or Ok
CancelOrderCheck(order, user) ==
    IF order.user # user THEN ErrForbidden
    ELSE IF order.status \notin CancellableStatuses THEN ErrCannotCancel
    ELSE Ok

\* orderRepo.FindByID, the owner check and the status check pass
CancelFind(c) ==
    /\ pc[c] = "idle"
    /\ \E o \in 1..Len(orders), u \in Users :
          /\ CancelOrderCheck(orders[o], u) = Ok
          /\ oid' = [oid EXCEPT ![c] = o]
          /\ caller' = [caller EXCEPT ![c] = u]
          /\ lines' = [lines EXCEPT ![c] = orders[o].items]
    /\ idx' = [idx EXCEPT ![c] = 1]
    /\ pc' = [pc EXCEPT ![c] = "xlock"]
    /\ UNCHANGED <<payVars, stock, cache, lock, carts, orders, snapshots,
                   totalAmount, result, got, pre, wrote>>
    /\ UNCHANGED loaded
    /\ UNCHANGED edgeVars
    /\ UNCHANGED sideVars

\* orderRepo.FindByID fails, the caller is not the owner, or the status is not
\* cancellable
CancelRefuse(c) ==
    /\ pc[c] = "idle"
    /\ \/ Finish(c, ErrOrderNotFound) /\ UNCHANGED <<oid, caller>>
       \/ \E o \in 1..Len(orders), u \in Users :
             /\ CancelOrderCheck(orders[o], u) # Ok
             /\ oid' = [oid EXCEPT ![c] = o]
             /\ caller' = [caller EXCEPT ![c] = u]
             /\ Finish(c, CancelOrderCheck(orders[o], u))
    /\ UNCHANGED <<payVars, stock, cache, lock, carts, orders, idx, wrote>>
    /\ UNCHANGED edgeVars
    /\ UNCHANGED sideVars

CancelNextLineBreak(c) ==
    idx' = [idx EXCEPT ![c] = 0] /\ pc' = [pc EXCEPT ![c] = "xstatus"]

\* the restore loop moves to the next item, or to the status write after the last
CancelNextLine(c) ==
    IF idx[c] < Len(lines[c])
    THEN idx' = [idx EXCEPT ![c] = idx[c] + 1] /\ pc' = [pc EXCEPT ![c] = "xlock"]
    ELSE idx' = [idx EXCEPT ![c] = 0] /\ pc' = [pc EXCEPT ![c] = "xstatus"]

\* mutex.Lock of the current item's product succeeds
CancelLock(c) ==
    /\ pc[c] = "xlock"
    /\ LET p == lines[c][idx[c]].product
       IN  /\ LockFree(p)
           /\ lock' = [lock EXCEPT ![p] = c]
    /\ pc' = [pc EXCEPT ![c] = "xread"]
    /\ UNCHANGED <<payVars, stock, cache, carts, orders, idx, lines, snapshots,
                   totalAmount, result, oid, got, pre, wrote>>
    /\ UNCHANGED loaded
    /\ UNCHANGED caller
    /\ UNCHANGED edgeVars
    /\ UNCHANGED sideVars

\* mutex.Lock fails: logged, the item is skipped
CancelLockFail(c) ==
    /\ pc[c] = "xlock"
    /\ CancelNextLine(c)
    /\ wrote' = IF LockFree(lines[c][idx[c]].product) THEN wrote
                ELSE [wrote EXCEPT ![c] = @ \cup {"skip"}]
    /\ UNCHANGED <<payVars, stock, cache, lock, carts, orders, lines, snapshots,
                   totalAmount, result, oid, got, pre>>
    /\ UNCHANGED loaded
    /\ UNCHANGED caller
    /\ UNCHANGED edgeVars
    /\ UNCHANGED sideVars

\* productRepo.FindByID of the current item's product, under its lock
CancelRead(c) ==
    /\ pc[c] = "xread"
    /\ LET p == lines[c][idx[c]].product
       IN  /\ got' = [got EXCEPT ![c] = FindByIDStock(p)]
           /\ cache' = FindByIDCache(p)
    /\ pc' = [pc EXCEPT ![c] = "xwrite"]
    /\ UNCHANGED <<payVars, stock, lock, carts, orders, idx, lines, snapshots,
                   totalAmount, result, oid, pre, wrote>>
    /\ UNCHANGED loaded
    /\ UNCHANGED caller
    /\ UNCHANGED edgeVars
    /\ UNCHANGED sideVars

\* productRepo.FindByID fails: the lock is released, the item is skipped
CancelReadFail(c) ==
    /\ pc[c] = "xread"
    /\ lock' = UnlockAll(c)
    /\ CancelNextLine(c)
    /\ UNCHANGED <<payVars, stock, cache, carts, orders, lines, snapshots,
                   totalAmount, result, oid, got, pre, wrote>>
    /\ UNCHANGED loaded
    /\ UNCHANGED caller
    /\ UNCHANGED edgeVars
    /\ UNCHANGED sideVars

\* the stock CancelOrder writes back for an item
RestoredStock(productStock, quantity) == productStock + quantity

\* productRepo.UpdateStock of the restored stock (a failure is logged), then Unlock
CancelWrite(c) ==
    /\ pc[c] = "xwrite"
    /\ LET line == lines[c][idx[c]]
       IN  \/ /\ stock' = UpdateStockRow(stock, line.product,
                                         RestoredStock(got[c], line.quantity))
              /\ cache' = UpdateStockCache(cache, line.product)
              /\ wrote' = [wrote EXCEPT ![c] = @ \cup {"stock"}]
           \/ UNCHANGED <<stock, cache, wrote>>
    /\ lock' = UnlockAll(c)
    /\ got' = [got EXCEPT ![c] = NoCache]
    /\ CancelNextLine(c)
    /\ UNCHANGED <<payVars, carts, orders, lines, snapshots, totalAmount, result,
                   oid, pre>>
    /\ UNCHANGED loaded
    /\ UNCHANGED caller
    /\ UNCHANGED edgeVars
    /\ UNCHANGED sideVars

UpdateStatusLost(ords, o, status) == ords

\* orderRepository.UpdateStatus: the status column of the row is set
UpdateStatus(ords, o, status) == [ords EXCEPT ![o].status = status]

\* orderRepo.UpdateStatus(cancelled) succeeds or fails
CancelStatus(c) ==
    /\ pc[c] = "xstatus"
    /\ \/ /\ orders' = UpdateStatus(orders, oid[c], OrderStatusCancelled)
          /\ wrote' = [wrote EXCEPT ![c] = @ \cup {"status"}]
          /\ Finish(c, Ok)
       \/ /\ Finish(c, ErrCancelFailed)
          /\ UNCHANGED <<orders, wrote>>
    /\ UNCHANGED <<payVars, stock, cache, lock, carts, idx, oid>>
    /\ UNCHANGED caller
    /\ UNCHANGED edgeVars
    /\ UNCHANGED sideVars

\* ------------------------------------------------- product reads, no lock
\* GetProductByID / AddItem: FindByID misses the cache and reads the row
ReadProduct(c) ==
    /\ pc[c] = "idle"
    /\ \E p \in Products :
          /\ cache[p] = NoCache
          /\ got' = [got EXCEPT ![c] = stock[p]]
          /\ lines' = [lines EXCEPT ![c] = <<[product |-> p, quantity |-> 0]>>]
    /\ pc' = [pc EXCEPT ![c] = "rcache"]
    /\ UNCHANGED <<payVars, stock, cache, lock, carts, orders, idx, snapshots,
                   totalAmount, result, oid, pre, wrote>>
    /\ UNCHANGED loaded
    /\ UNCHANGED caller
    /\ UNCHANGED edgeVars
    /\ UNCHANGED sideVars

\* ... and caches the record it read
ReadProductCache(c) ==
    /\ pc[c] = "rcache"
    /\ cache' = [cache EXCEPT ![lines[c][1].product] = got[c]]
    /\ Finish(c, Ok)
    /\ UNCHANGED <<payVars, stock, lock, carts, orders, idx, oid, wrote>>
    /\ UNCHANGED caller
    /\ UNCHANGED edgeVars
    /\ UNCHANGED sideVars

\* --------------------------------- AddItem / UpdateItem / RemoveItem (cart)
\* a product_id that uuid.Parse rejects
InvalidProductID == "not-a-uuid"

\* the requests: RemoveItem has no quantity
CartRequests ==
    {r \in [op : {"AddItem", "UpdateItem", "RemoveItem"},
            product : Products \cup {InvalidProductID},
            quantity : 0..MaxQty] :
        /\ r.op = "RemoveItem" => r.quantity = 0
        /\ r.op # "AddItem" => r.product \in Products}

\* the index at which the loop over cart.Items breaks: the first line of the
\* product, 0 when the loop ends without finding one
IndexOf(items, p) ==
    IF \E i \in 1..Len(items) : items[i].product = p
    THEN CHOOSE i \in 1..Len(items) :
            /\ items[i].product = p
            /\ \A j \in 1..(i - 1) : items[j].product # p
    ELSE 0

FoundAlways(items, p) == TRUE

Found(items, p) == IndexOf(items, p) # 0

AddItemAppend(items, p, quantity) ==
    Append(items, [product |-> p, quantity |-> quantity])

\* AddItem: the quantity is added to the product's line, or a line is appended
AddItemTo(items, p, quantity) ==
    IF Found(items, p)
    THEN [i \in 1..Len(items) |->
            IF i = IndexOf(items, p)
            THEN [items[i] EXCEPT !.quantity = @ + quantity] ELSE items[i]]
    ELSE Append(items, [product |-> p, quantity |-> quantity])

\* UpdateItem: the quantity of the product's line is set
UpdateItemIn(items, p, quantity) ==
    [i \in 1..Len(items) |->
        IF i = IndexOf(items, p)
        THEN [items[i] EXCEPT !.quantity = quantity] ELSE items[i]]

\* RemoveItem: append(cart.Items[:i], cart.Items[i+1:]...)
RemoveItemFrom(items, p) ==
    LET at == IndexOf(items, p)
    IN  IF at = 0 THEN items
        ELSE SubSeq(items, 1, at - 1) \o SubSeq(items, at + 1, Len(items))

\* the cart a request makes of the cart it loaded
ApplyEdit(r, items) ==
    IF r.op = "AddItem" THEN AddItemTo(items, r.product, r.quantity)
    ELSE IF r.op = "UpdateItem" THEN UpdateItemIn(items, r.product, r.quantity)
    ELSE RemoveItemFrom(items, r.product)

\* the checks before the lock: AddItem parses the product id and checks the
\* quantity, UpdateItem checks the quantity, RemoveItem checks nothing
CartRequestError(r) ==
    IF r.op = "AddItem" /\ r.product = InvalidProductID THEN ErrInvalidProductID
    ELSE IF r.op # "RemoveItem" /\ r.quantity <= 0 THEN ErrQuantity
    ELSE Ok

CartLockFreeAlways(u) == TRUE

\* mutex.Lock of the cart lock succeeds when the key is not set
CartLockFree(u) == cartLock[u] = NoLock

\* the deferred unlock
CartUnlock(c) ==
    [u \in Users |-> IF cartLock[u] = c THEN NoLock ELSE cartLock[u]]

\* the request arrives and passes or fails the checks before the lock
CartCall(c) ==
    /\ pc[c] = "idle"
    /\ \E r \in CartRequests :
          /\ req' = [req EXCEPT ![c] = r]
          /\ IF CartRequestError(r) # Ok THEN Finish(c, CartRequestError(r))
             ELSE /\ pc' = [pc EXCEPT ![c] = IF r.op = "AddItem" THEN "eprod" ELSE "elock"]
                  /\ UNCHANGED <<result, frame>>
    /\ UNCHANGED <<payVars, stock, cache, lock, carts, orders, idx, oid, wrote,
                   caller, cartLock, message>>
    /\ UNCHANGED sideVars

\* AddItem: productRepo.FindByID and the stock check, before the lock
CartProduct(c) ==
    /\ pc[c] = "eprod"
    /\ \/ /\ Sufficient(FindByIDStock(req[c].product), req[c].quantity)
          /\ cache' = FindByIDCache(req[c].product)
          /\ pc' = [pc EXCEPT ![c] = "elock"]
          /\ UNCHANGED <<result, frame>>
       \/ /\ ~Sufficient(FindByIDStock(req[c].product), req[c].quantity)
          /\ cache' = FindByIDCache(req[c].product)
          /\ Finish(c, ErrInsufficientStock)
       \/ /\ Finish(c, ErrProductNotFound)
          /\ UNCHANGED cache
    /\ UNCHANGED <<payVars, stock, lock, carts, orders, idx, oid, wrote, caller,
                   edgeVars>>
    /\ UNCHANGED sideVars

\* lockCart: mutex.Lock succeeds
CartLock(c) ==
    /\ pc[c] = "elock"
    /\ CartLockFree(CartCallUser[c])
    /\ cartLock' = [cartLock EXCEPT ![CartCallUser[c]] = c]
    /\ pc' = [pc EXCEPT ![c] = "eload"]
    /\ UNCHANGED <<payVars, stock, cache, lock, carts, orders, idx, oid, wrote,
                   caller, req, message, result, frame>>
    /\ UNCHANGED sideVars

\* lockCart: mutex.Lock fails (the key is held until the tries run out, or the
\* lock store does not answer); the error is returned
CartLockFail(c) ==
    /\ pc[c] = "elock"
    /\ Finish(c, ErrCartLock)
    /\ UNCHANGED <<payVars, stock, cache, lock, carts, orders, idx, oid, wrote,
                   caller, edgeVars>>
    /\ UNCHANGED sideVars

\* cartRepo.GetCart succeeds and the loop over the items runs: the edited cart
\* is ready to be saved, or the product has no line (UpdateItem, RemoveItem)
CartLoad(c) ==
    /\ pc[c] = "eload"
    /\ LET cart == carts[CartCallUser[c]]
       IN  IF req[c].op # "AddItem" /\ ~Found(cart, req[c].product)
           THEN /\ Finish(c, ErrItemNotFound)
                /\ cartLock' = CartUnlock(c)
           ELSE /\ lines' = [lines EXCEPT ![c] = ApplyEdit(req[c], cart)]
                /\ pc' = [pc EXCEPT ![c] = "esave"]
                /\ UNCHANGED <<cartLock, result, snapshots, totalAmount, got, pre,
                               loaded>>
    /\ UNCHANGED <<payVars, stock, cache, lock, carts, orders, idx, oid, wrote,
                   caller, req, message>>
    /\ UNCHANGED sideVars

\* cartRepo.GetCart fails: AddItem goes on with a new empty cart, UpdateItem
\* and RemoveItem return
CartLoadFail(c) ==
    /\ pc[c] = "eload"
    /\ IF req[c].op = "AddItem"
       THEN /\ lines' = [lines EXCEPT ![c] = ApplyEdit(req[c], <<>>)]
            /\ pc' = [pc EXCEPT ![c] = "esave"]
            /\ UNCHANGED <<cartLock, result, snapshots, totalAmount, got, pre,
                           loaded>>
       ELSE /\ Finish(c, ErrLoadCart)
            /\ cartLock' = CartUnlock(c)
    /\ UNCHANGED <<payVars, stock, cache, lock, carts, orders, idx, oid, wrote,
                   caller, req, message>>
    /\ UNCHANGED sideVars

\* cartRepo.SaveCart replaces the cart; the deferred unlock runs
CartSave(c) ==
    /\ pc[c] = "esave"
    /\ carts' = [carts EXCEPT ![CartCallUser[c]] = lines[c]]
    /\ cartLock' = CartUnlock(c)
    /\ Finish(c, Ok)
    /\ UNCHANGED <<payVars, stock, cache, lock, orders, idx, oid, wrote, caller,
                   req, message>>
    /\ UNCHANGED sideVars

\* cartRepo.SaveCart fails; the deferred unlock runs
CartSaveFail(c) ==
    /\ pc[c] = "esave"
    /\ cartLock' = CartUnlock(c)
    /\ Finish(c, ErrSaveCart)
    /\ UNCHANGED <<payVars, stock, cache, lock, carts, orders, idx, oid, wrote,
                   caller, req, message>>
    /\ UNCHANGED sideVars

\* ------------------------------------- UpdateProduct / UpdateImage (seller)
\* the stock column productRepository.Update saves: gorm's Save writes every
\* column of the record the service loaded, the stock among them, with the
\* request's stock when it has one
SavedStock(request, productStock) ==
    IF request.stock = NoStockEdit THEN productStock ELSE request.stock

\* getStoreByOwner, productRepo.FindByID and the owner check pass: the product
\* record is loaded, from the cache when it is there.  UpdateImage is the
\* request without stock
UpdateProductFind(c) ==
    /\ pc[c] = "idle"
    /\ \E p \in Products, st \in {NoStockEdit} \cup (0..InitStock) :
          /\ req' = [req EXCEPT ![c] = [product |-> p, stock |-> st]]
          /\ got' = [got EXCEPT ![c] = FindByIDStock(p)]
          /\ cache' = FindByIDCache(p)
    /\ pc' = [pc EXCEPT ![c] = "psave"]
    /\ UNCHANGED <<payVars, stock, lock, carts, orders, idx, lines, snapshots,
                   totalAmount, result, oid, pre, wrote, loaded, caller,
                   cartLock, message>>
    /\ UNCHANGED sideVars

\* the seller has no store, the product is not found or is not of the store
UpdateProductRefuse(c) ==
    /\ pc[c] = "idle"
    /\ \E e \in {ErrStoreNotFoundForUser, ErrProductNotFound, ErrNotProductOwner} :
          Finish(c, e)
    /\ UNCHANGED <<payVars, stock, cache, lock, carts, orders, idx, oid, wrote,
                   caller, edgeVars>>
    /\ UNCHANGED sideVars

\* productRepo.Update: the whole record is saved and the cache key dropped, or
\* the save fails
UpdateProductSave(c) ==
    /\ pc[c] = "psave"
    /\ \/ /\ stock' = UpdateStockRow(stock, req[c].product, SavedStock(req[c], got[c]))
          /\ cache' = UpdateStockCache(cache, req[c].product)
          /\ Finish(c, Ok)
       \/ /\ Finish(c, ErrUpdateProduct)
          /\ UNCHANGED <<stock, cache>>
    /\ UNCHANGED <<payVars, lock, carts, orders, idx, oid, wrote, caller, edgeVars>>
    /\ UNCHANGED sideVars

\* ------------------------------------------------- ProcessPaymentResult
\* orderRepo.FindByID finds the order of the event
PayFind(c) ==
    /\ pc[c] = "idle"
    /\ \E o \in 1..Len(orders), flag \in BOOLEAN :
          /\ oid' = [oid EXCEPT ![c] = o]
          /\ success' = [success EXCEPT ![c] = flag]
          /\ loaded' = [loaded EXCEPT ![c] = orders[o].status]
    /\ pc' = [pc EXCEPT ![c] = "mpayment"]
    /\ UNCHANGED <<stock, cache, lock, carts, orders, idx, lines, snapshots,
                   totalAmount, result, got, payments, target, pre, wrote>>
    /\ UNCHANGED caller
    /\ UNCHANGED edgeVars
    /\ UNCHANGED sideVars

PayOrderNotFoundSilent(c) ==
    /\ pc[c] = "idle"
    /\ Finish(c, Ok)
    /\ UNCHANGED <<payVars, stock, cache, lock, carts, orders, idx, oid, wrote>>
    /\ UNCHANGED caller
    /\ UNCHANGED edgeVars
    /\ UNCHANGED sideVars

\* orderRepo.FindByID fails
PayOrderNotFound(c) ==
    /\ pc[c] = "idle"
    /\ Finish(c, ErrOrderNotFound)
    /\ UNCHANGED <<payVars, stock, cache, lock, carts, orders, idx, oid, wrote>>
    /\ UNCHANGED caller
    /\ UNCHANGED edgeVars
    /\ UNCHANGED sideVars

FindPaymentByOrderIDAlways(o) == PaymentStatusPending

\* orderRepository.FindPaymentByOrderID: the record of the order, if there is one
FindPaymentByOrderID(o) == IF o \in DOMAIN payments THEN payments[o] ELSE NoPayment

\* the status ProcessPaymentResult sets on the payment record
PaymentStatusFor(flag) == IF flag THEN PaymentStatusSuccess ELSE PaymentStatusFailed

\* FindPaymentByOrderID; its error is dropped, the payment is then nil.  With
\* a payment loaded the call goes on to save it, else to the order status
PayFindPayment(c) ==
    /\ pc[c] = "mpayment"
    /\ \E found \in {FindPaymentByOrderID(oid[c]), NoPayment} :
          /\ IF found # NoPayment
             THEN pc' = [pc EXCEPT ![c] = "mupdate"] /\ UNCHANGED <<result, frame>>
             ELSE IF success[c]
             THEN pc' = [pc EXCEPT ![c] = "mstatus"] /\ UNCHANGED <<result, frame>>
             ELSE Finish(c, Ok)
    /\ UNCHANGED <<stock, cache, lock, carts, orders, idx, oid, payments, success,
                   target, wrote>>
    /\ UNCHANGED caller
    /\ UNCHANGED edgeVars
    /\ UNCHANGED sideVars

\* orderRepo.UpdatePayment saves the loaded record with its new status, or fails
PayUpdatePayment(c) ==
    /\ pc[c] = "mupdate"
    /\ \/ /\ payments' = [payments EXCEPT ![oid[c]] = PaymentStatusFor(success[c])]
          /\ IF success[c]
             THEN pc' = [pc EXCEPT ![c] = "mstatus"] /\ UNCHANGED <<result, frame>>
             ELSE Finish(c, Ok)
       \/ /\ Finish(c, ErrUpdatePayment)
          /\ UNCHANGED payments
    /\ UNCHANGED <<stock, cache, lock, carts, orders, idx, oid, success, target, wrote>>
    /\ UNCHANGED caller
    /\ UNCHANGED edgeVars
    /\ UNCHANGED sideVars

\* orderRepo.UpdateStatus(paid) succeeds
PayUpdateStatus(c) ==
    /\ pc[c] = "mstatus"
    /\ orders' = UpdateStatus(orders, oid[c], OrderStatusPaid)
    /\ Finish(c, Ok)
    /\ UNCHANGED <<payVars, stock, cache, lock, carts, idx, oid, wrote>>
    /\ UNCHANGED caller
    /\ UNCHANGED edgeVars
    /\ UNCHANGED sideVars

\* orderRepo.UpdateStatus(paid) fails
PayUpdateStatusFail(c) ==
    /\ pc[c] = "mstatus"
    /\ Finish(c, ErrUpdateStatus)
    /\ UNCHANGED <<payVars, stock, cache, lock, carts, orders, idx, oid, wrote>>
    /\ UNCHANGED caller
    /\ UNCHANGED edgeVars
    /\ UNCHANGED sideVars

\* ------------------------------------------- PaymentResultConsumer
\* an order_id uuid.Parse rejects, and an order id no order has
InvalidOrderID == -1
UnknownOrder == 2

\* the message bodies: one json.Unmarshal rejects, or a payload with its order_id
MessageBodies ==
    {m \in [body : {"not json", "json"},
            order_id : {InvalidOrderID} \cup (1..UnknownOrder)] :
        m.body = "not json" => m.order_id = InvalidOrderID}

\* handlePaymentResult skips the message: Unmarshal or uuid.Parse fails
Malformed(m) == m.body = "not json" \/ m.order_id = InvalidOrderID

\* the success flag the consumer's handler passes on
ConsumerSuccess(k) == k = "ks"

\* nsqd delivers the next message of the topic to the consumer
Deliver(k) ==
    /\ pc[k] = "idle"
    /\ message[k] = NoMessage
    /\ \E body \in MessageBodies : message' = [message EXCEPT ![k] = body]
    /\ UNCHANGED <<payVars, stock, cache, lock, carts, orders, pc, idx, result, oid,
                   wrote, caller, cartLock, req, frame>>
    /\ UNCHANGED sideVars

HandleMalformedRetry(k) ==
    /\ pc[k] = "idle"
    /\ message[k] # NoMessage
    /\ Malformed(message[k])
    /\ wrote' = [wrote EXCEPT ![k] = @ \cup {"skipped"}]
    /\ Finish(k, ErrOrderNotFound)
    /\ UNCHANGED <<payVars, stock, cache, lock, carts, orders, idx, oid, caller,
                   edgeVars>>
    /\ UNCHANGED sideVars

\* the message is logged and skipped: the handler returns nil
HandleMalformed(k) ==
    /\ pc[k] = "idle"
    /\ message[k] # NoMessage
    /\ Malformed(message[k])
    /\ wrote' = [wrote EXCEPT ![k] = @ \cup {"skipped"}]
    /\ Finish(k, Ok)
    /\ UNCHANGED <<payVars, stock, cache, lock, carts, orders, idx, oid, caller,
                   edgeVars>>
    /\ UNCHANGED sideVars

\* the handler calls ProcessPaymentResult, whose FindByID finds the order
HandleFind(k) ==
    /\ pc[k] = "idle"
    /\ message[k] # NoMessage
    /\ ~Malformed(message[k])
    /\ message[k].order_id \in 1..Len(orders)
    /\ oid' = [oid EXCEPT ![k] = message[k].order_id]
    /\ success' = [success EXCEPT ![k] = ConsumerSuccess(k)]
    /\ loaded' = [loaded EXCEPT ![k] = orders[message[k].order_id].status]
    /\ pc' = [pc EXCEPT ![k] = "mpayment"]
    /\ UNCHANGED <<stock, cache, lock, carts, orders, idx, lines, snapshots,
                   totalAmount, result, got, payments, target, pre, wrote, caller,
                   edgeVars>>
    /\ UNCHANGED sideVars

\* the handler calls ProcessPaymentResult, whose FindByID fails: no such
\* order, or the read failed
HandleOrderNotFound(k) ==
    /\ pc[k] = "idle"
    /\ message[k] # NoMessage
    /\ ~Malformed(message[k])
    /\ Finish(k, ErrOrderNotFound)
    /\ UNCHANGED <<payVars, stock, cache, lock, carts, orders, idx, oid, wrote,
                   caller, edgeVars>>
    /\ UNCHANGED sideVars

\* what the handler's return leaves for the next delivery: nothing of the call
Returned(k) ==
    /\ pc' = [pc EXCEPT ![k] = "idle"]
    /\ result' = [result EXCEPT ![k] = ""]
    /\ oid' = [oid EXCEPT ![k] = NoOrder]
    /\ success' = [success EXCEPT ![k] = FALSE]

MessageRequeueDrop(k) ==
    /\ pc[k] = "done"
    /\ result[k] # Ok
    /\ Returned(k)
    /\ message' = [message EXCEPT ![k] = NoMessage]
    /\ wrote' = [wrote EXCEPT ![k] = @ \cup ({result[k]} \cap {ErrUpdateStatus})]
    /\ UNCHANGED <<stock, cache, lock, carts, orders, idx, payments, target, caller,
                   cartLock, req, frame>>
    /\ UNCHANGED sideVars

\* the handler returned nil: the message is finished
MessageFinish(k) ==
    /\ pc[k] = "done"
    /\ result[k] = Ok
    /\ Returned(k)
    /\ message' = [message EXCEPT ![k] = NoMessage]
    /\ UNCHANGED <<stock, cache, lock, carts, orders, idx, payments, target, wrote,
                   caller, cartLock, req, frame>>
    /\ UNCHANGED sideVars

\* the handler returned an error: the message is requeued and delivered
\* again (history: a requeue after a failed order status write is recorded)
MessageRequeue(k) ==
    /\ pc[k] = "done"
    /\ result[k] # Ok
    /\ Returned(k)
    /\ wrote' = [wrote EXCEPT ![k] = @ \cup ({result[k]} \cap {ErrUpdateStatus})]
    /\ UNCHANGED <<stock, cache, lock, carts, orders, idx, payments, target, caller,
                   edgeVars, frame>>
    /\ UNCHANGED sideVars

\* the payment service stores the payment record of an order (orderRepo.CreatePayment)
CreatePayment ==
    /\ \E o \in 1..Len(orders) :
          /\ o \notin DOMAIN payments
          /\ payments' = payments @@ (o :> PaymentStatusPending)
    /\ UNCHANGED <<stock, cache, lock, carts, orders, pc, idx, lines, snapshots,
                   totalAmount, result, oid, got, success, target, pre, wrote>>
    /\ UNCHANGED loaded
    /\ UNCHANGED caller
    /\ UNCHANGED edgeVars
    /\ UNCHANGED sideVars

\* ---------------------------------------------------- UpdateOrderStatus
ValidTransitionsFromPending ==
    (OrderStatusPending :> {OrderStatusProcessing}) @@
    (OrderStatusPaid :> {OrderStatusProcessing}) @@
    (OrderStatusProcessing :> {OrderStatusShipping}) @@
    (OrderStatusShipping :> {OrderStatusShipped}) @@
    (OrderStatusShipped :> {OrderStatusCompleted})

\* the validTransitions map
ValidTransitions ==
    (OrderStatusPaid :> {OrderStatusProcessing}) @@
    (OrderStatusProcessing :> {OrderStatusShipping}) @@
    (OrderStatusShipping :> {OrderStatusShipped}) @@
    (OrderStatusShipped :> {OrderStatusCompleted})

UpdateOrderStatusCheckAnyTarget(order, seller, status) ==
    IF order.status \notin DOMAIN ValidTransitions THEN ErrNoTransition
    ELSE IF seller \notin DOMAIN StoreOf THEN ErrStoreNotFound
    ELSE IF \A i \in 1..Len(order.items) :
               ProductStore[order.items[i].product] # StoreOf[seller]
    THEN ErrForbiddenStore
    ELSE Ok

UpdateOrderStatusCheckAnyStore(order, seller, status) ==
    IF order.status \notin DOMAIN ValidTransitions THEN ErrNoTransition
    ELSE IF status \notin ValidTransitions[order.status] THEN ErrInvalidTransition
    ELSE IF seller \notin DOMAIN StoreOf THEN ErrStoreNotFound
    ELSE Ok

\* the error of the checks before the write, or Ok
UpdateOrderStatusCheck(order, seller, status) ==
    IF order.status \notin DOMAIN ValidTransitions THEN ErrNoTransition
    ELSE IF status \notin ValidTransitions[order.status] THEN ErrInvalidTransition
    ELSE IF seller \notin DOMAIN StoreOf THEN ErrStoreNotFound
    ELSE IF \A i \in 1..Len(order.items) :
               ProductStore[order.items[i].product] # StoreOf[seller]
    THEN ErrForbiddenStore
    ELSE Ok

\* the errors a request can be refused with: the error of the first check
\* that fails, "order not found" when FindByID fails, "store not found" when
\* the store lookup fails, and the forbidden error when no item's product
\* could be loaded
UpdateOrderStatusErrors(order, seller, status) ==
    LET e == UpdateOrderStatusCheck(order, seller, status)
    IN  {ErrOrderNotFound}
        \cup (IF e # Ok THEN {e} ELSE {})
        \cup (IF e \in {ErrNoTransition, ErrInvalidTransition} THEN {} ELSE {ErrStoreNotFound})
        \cup (IF e \in {Ok, ErrForbiddenStore} THEN {ErrForbiddenStore} ELSE {})

\* the requests a seller call stands for: a1 is the seller of storeA moving
\* the order towards shipped, a2 is any user asking for any status
SellerRequests(c) ==
    IF c \in SellerCalls
    THEN {"s1"} \X {OrderStatusProcessing, OrderStatusShipping, OrderStatusShipped}
    ELSE Sellers \X OrderStatuses

\* a seller's request arrives: the order id, the seller and the requested status
UpdateOrderStatusCall(c) ==
    /\ pc[c] = "idle"
    /\ \E o \in 1..Len(orders), seller \in Sellers, status \in OrderStatuses :
          /\ <<seller, status>> \in SellerRequests(c)
          /\ oid' = [oid EXCEPT ![c] = o]
          /\ caller' = [caller EXCEPT ![c] = seller]
          /\ target' = [target EXCEPT ![c] = status]
    /\ pc' = [pc EXCEPT ![c] = "ufind"]
    /\ result' = [result EXCEPT ![c] = ""]
    /\ UNCHANGED <<stock, cache, lock, carts, orders, idx, lines, snapshots,
                   totalAmount, got, payments, success, loaded, pre, wrote>>
    /\ UNCHANGED edgeVars
    /\ UNCHANGED sideVars

\* orderRepo.FindByID, the transition check, the store lookup and the search
\* for an item of the seller's store all pass
UpdateOrderStatusFind(c) ==
    /\ pc[c] = "ufind"
    /\ UpdateOrderStatusCheck(orders[oid[c]], caller[c], target[c]) = Ok
    /\ pc' = [pc EXCEPT ![c] = "uwrite"]
    /\ UNCHANGED <<stock, cache, lock, carts, orders, idx, lines, snapshots,
                   totalAmount, result, oid, got, payments, success, target, loaded,
                   caller, pre, wrote>>
    /\ UNCHANGED edgeVars
    /\ UNCHANGED sideVars

\* one of them does not: the request returns the error
UpdateOrderStatusRefuse(c) ==
    /\ pc[c] = "ufind"
    /\ \E err \in UpdateOrderStatusErrors(orders[oid[c]], caller[c], target[c]) :
          result' = [result EXCEPT ![c] = err]
    /\ pc' = [pc EXCEPT ![c] = "idle"]
    /\ oid' = [oid EXCEPT ![c] = NoOrder]
    /\ caller' = [caller EXCEPT ![c] = ""]
    /\ target' = [target EXCEPT ![c] = ""]
    /\ UNCHANGED <<stock, cache, lock, carts, orders, idx, lines, snapshots,
                   totalAmount, got, payments, success, loaded, pre, wrote>>
    /\ UNCHANGED edgeVars
    /\ UNCHANGED sideVars

\* orderRepo.UpdateStatus(status) succeeds or fails; the request returns
UpdateOrderStatusWrite(c) ==
    /\ pc[c] = "uwrite"
    /\ \/ /\ orders' = UpdateStatus(orders, oid[c], target[c])
          /\ result' = [result EXCEPT ![c] = Ok]
       \/ /\ result' = [result EXCEPT ![c] = ErrUpdateStatus]
          /\ UNCHANGED orders
    /\ pc' = [pc EXCEPT ![c] = "idle"]
    /\ oid' = [oid EXCEPT ![c] = NoOrder]
    /\ caller' = [caller EXCEPT ![c] = ""]
    /\ target' = [target EXCEPT ![c] = ""]
    /\ UNCHANGED <<stock, cache, lock, carts, idx, lines, snapshots, totalAmount,
                   got, payments, success, loaded, pre, wrote>>
    /\ UNCHANGED edgeVars
    /\ UNCHANGED sideVars

\* ------------------------------------------------------------------ Init
Init ==
    /\ stock = [p \in Products |-> InitStock]
    /\ cache = [p \in Products |-> NoCache]
    /\ lock = [p \in Products |-> NoLock]
    /\ carts \in {f \in [Users -> Carts] : \A u \in Users : f[u] \in InitCarts(u)}
    /\ orders = <<>>
    /\ pc = [c \in Calls |-> "idle"]
    /\ idx = [c \in Calls |-> 0]
    /\ lines = [c \in Calls |-> <<>>]
    /\ snapshots = [c \in Calls |-> <<>>]
    /\ totalAmount = [c \in Calls |-> 0]
    /\ result = [c \in Calls |-> ""]
    /\ oid = [c \in Calls |-> NoOrder]
    /\ got = [c \in Calls |-> NoCache]
    /\ pre = [c \in Calls |-> NoPre]
    /\ wrote = [c \in Calls |-> {}]
    /\ payments = <<>>
    /\ success = [c \in Calls |-> FALSE]
    /\ target = [c \in Calls |-> ""]
    /\ loaded = [c \in Calls |-> ""]
    /\ caller = [c \in Calls |-> ""]
    /\ cartLock = [u \in Users |-> NoLock]
    /\ req = [c \in Calls |-> NoRequest]
    /\ message = [c \in Calls |-> NoMessage]
    /\ InitSide

Next ==
    \/ \E c \in CheckoutCalls : CheckoutGetCart(c)
    \/ \E c \in CheckoutCalls : CheckoutNoCart(c)
    \/ \E c \in CheckoutCalls : CheckoutLock(c)
    \/ \E c \in CheckoutCalls : CheckoutLockFail(c)
    \/ \E c \in CheckoutCalls : CheckoutValidate(c)
    \/ \E c \in CheckoutCalls : CheckoutInsufficient(c)
    \/ \E c \in CheckoutCalls : CheckoutProductNotFound(c)
    \/ \E c \in CheckoutCalls : CheckoutApply(c)
    \/ \E c \in CheckoutCalls : CheckoutApplyFail(c)
    \/ \E c \in CheckoutCalls : CheckoutCreate(c)
    \/ \E c \in CheckoutCalls : CheckoutCreateFail(c)
    \/ \E c \in CheckoutCalls : CheckoutClearCart(c)
    \/ \E c \in CheckoutCalls : CheckoutReturn(c)
    \/ \E c \in CancelCalls : CancelFind(c)
    \/ \E c \in CancelCalls : CancelRefuse(c)
    \/ \E c \in CancelCalls : CancelLock(c)
    \/ \E c \in CancelCalls : CancelLockFail(c)
    \/ \E c \in CancelCalls : CancelRead(c)
    \/ \E c \in CancelCalls : CancelReadFail(c)
    \/ \E c \in CancelCalls : CancelWrite(c)
    \/ \E c \in CancelCalls : CancelStatus(c)
    \/ \E c \in ReadCalls : ReadProduct(c)
    \/ \E c \in ReadCalls : ReadProductCache(c)

Spec == Init /\ [][Next]_vars

\* ------------------------------------------- after checkout: the order's life
\* u1's checkout of the cart has committed: the order is pending, the stock is
\* decremented, the cart is cleared, no call is running
OrderOf(cart) ==
    [user |-> "u1", status |-> OrderStatusPending,
     total |-> SumTotal(cart, Len(cart)),
     items |-> [i \in 1..Len(cart) |-> [product |-> cart[i].product,
                                        quantity |-> cart[i].quantity,
                                        price |-> Price[cart[i].product]]]]

InitPay ==
    /\ \E cart \in InitCarts("u1") :
          /\ \A i \in 1..Len(cart) : Sufficient(InitStock, cart[i].quantity)
          /\ orders = <<OrderOf(cart)>>
          /\ stock = [p \in Products |-> InitStock - QuantityIn(cart, p)]
    /\ cache = [p \in Products |-> NoCache]
    /\ lock = [p \in Products |-> NoLock]
    /\ carts = [u \in Users |-> <<>>]
    /\ pc = [c \in Calls |-> "idle"]
    /\ idx = [c \in Calls |-> 0]
    /\ lines = [c \in Calls |-> <<>>]
    /\ snapshots = [c \in Calls |-> <<>>]
    /\ totalAmount = [c \in Calls |-> 0]
    /\ result = [c \in Calls |-> ""]
    /\ oid = [c \in Calls |-> NoOrder]
    /\ got = [c \in Calls |-> NoCache]
    /\ pre = [c \in Calls |-> NoPre]
    /\ wrote = [c \in Calls |-> {}]
    /\ payments = <<>>
    /\ success = [c \in Calls |-> FALSE]
    /\ target = [c \in Calls |-> ""]
    /\ loaded = [c \in Calls |-> ""]
    /\ caller = [c \in Calls |-> ""]
    /\ cartLock = [u \in Users |-> NoLock]
    /\ req = [c \in Calls |-> NoRequest]
    /\ message = [c \in Calls |-> NoMessage]
    /\ InitSide

NextPay ==
    \/ CreatePayment
    \/ \E c \in PayCalls : PayFind(c)
    \/ \E c \in PayCalls : PayOrderNotFound(c)
    \/ \E c \in PayCalls : PayFindPayment(c)
    \/ \E c \in PayCalls : PayUpdatePayment(c)
    \/ \E c \in PayCalls : PayUpdateStatus(c)
    \/ \E c \in PayCalls : PayUpdateStatusFail(c)
    \/ \E c \in SellerCalls : UpdateOrderStatusCall(c)
    \/ \E c \in SellerCalls : UpdateOrderStatusFind(c)
    \/ \E c \in SellerCalls : UpdateOrderStatusRefuse(c)
    \/ \E c \in SellerCalls : UpdateOrderStatusWrite(c)
    \/ \E c \in CancelCalls : CancelFind(c)
    \/ \E c \in CancelCalls : CancelRefuse(c)
    \/ \E c \in CancelCalls : CancelLock(c)
    \/ \E c \in CancelCalls : CancelLockFail(c)
    \/ \E c \in CancelCalls : CancelRead(c)
    \/ \E c \in CancelCalls : CancelReadFail(c)
    \/ \E c \in CancelCalls : CancelWrite(c)
    \/ \E c \in CancelCalls : CancelStatus(c)

SpecPay == InitPay /\ [][NextPay]_vars

\* ------------------------------------ two checkouts of one buyer's cart
NextTwin ==
    \/ \E c \in TwinCalls : CheckoutGetCart(c)
    \/ \E c \in TwinCalls : CheckoutNoCart(c)
    \/ \E c \in TwinCalls : CheckoutLock(c)
    \/ \E c \in TwinCalls : CheckoutLockFail(c)
    \/ \E c \in TwinCalls : CheckoutValidate(c)
    \/ \E c \in TwinCalls : CheckoutInsufficient(c)
    \/ \E c \in TwinCalls : CheckoutProductNotFound(c)
    \/ \E c \in TwinCalls : CheckoutApply(c)
    \/ \E c \in TwinCalls : CheckoutApplyFail(c)
    \/ \E c \in TwinCalls : CheckoutCreate(c)
    \/ \E c \in TwinCalls : CheckoutCreateFail(c)
    \/ \E c \in TwinCalls : CheckoutClearCart(c)
    \/ \E c \in TwinCalls : CheckoutReturn(c)

SpecTwin == Init /\ [][NextTwin]_vars

\* ----------------------------------- the payment-result consumers alone
\* one pending order of u1, with its payment record or without
InitConsume ==
    /\ \E cart \in {s \in Carts : Len(s) = 1 /\ s[1].product = "pA"} :
          /\ Sufficient(InitStock, cart[1].quantity)
          /\ orders = <<OrderOf(cart)>>
          /\ stock = [p \in Products |-> InitStock - QuantityIn(cart, p)]
    /\ payments \in {<<>>, <<PaymentStatusPending>>}
    /\ cache = [p \in Products |-> NoCache]
    /\ lock = [p \in Products |-> NoLock]
    /\ carts = [u \in Users |-> <<>>]
    /\ pc = [c \in Calls |-> "idle"]
    /\ idx = [c \in Calls |-> 0]
    /\ lines = [c \in Calls |-> <<>>]
    /\ snapshots = [c \in Calls |-> <<>>]
    /\ totalAmount = [c \in Calls |-> 0]
    /\ result = [c \in Calls |-> ""]
    /\ oid = [c \in Calls |-> NoOrder]
    /\ got = [c \in Calls |-> NoCache]
    /\ pre = [c \in Calls |-> NoPre]
    /\ wrote = [c \in Calls |-> {}]
    /\ success = [c \in Calls |-> FALSE]
    /\ target = [c \in Calls |-> ""]
    /\ loaded = [c \in Calls |-> ""]
    /\ caller = [c \in Calls |-> ""]
    /\ cartLock = [u \in Users |-> NoLock]
    /\ req = [c \in Calls |-> NoRequest]
    /\ message = [c \in Calls |-> NoMessage]
    /\ InitSide

NextConsume ==
    \/ \E k \in ConsumerCalls : Deliver(k)
    \/ \E k \in ConsumerCalls : HandleMalformed(k)
    \/ \E k \in ConsumerCalls : HandleFind(k)
    \/ \E k \in ConsumerCalls : HandleOrderNotFound(k)
    \/ \E k \in ConsumerCalls : PayFindPayment(k)
    \/ \E k \in ConsumerCalls : PayUpdatePayment(k)
    \/ \E k \in ConsumerCalls : PayUpdateStatus(k)
    \/ \E k \in ConsumerCalls : PayUpdateStatusFail(k)
    \/ \E k \in ConsumerCalls : MessageFinish(k)
    \/ \E k \in ConsumerCalls : MessageRequeue(k)

SpecConsume == InitConsume /\ [][NextConsume]_vars

\* every step of a handler is taken in the end, and a store call that is
\* tried again and again succeeds in the end
ConsumeFairness ==
    \A k \in ConsumerCalls :
        /\ WF_vars(HandleMalformed(k))
        /\ SF_vars(HandleFind(k))
        /\ WF_vars(PayFindPayment(k))
        /\ SF_vars(PayUpdatePayment(k) /\ result'[k] # ErrUpdatePayment)
        /\ SF_vars(PayUpdateStatus(k))
        /\ WF_vars(MessageFinish(k))
        /\ WF_vars(MessageRequeue(k))

SpecConsumeFair == SpecConsume /\ ConsumeFairness

\* ------------------------------------------ the cart edits of one buyer
\* u1's cart is empty or holds pA, or pA and pB; pB is short in stock
InitCart ==
    /\ stock = [p \in Products |-> IF p = "pA" THEN InitStock ELSE InitStock - 1]
    /\ cache = [p \in Products |-> NoCache]
    /\ lock = [p \in Products |-> NoLock]
    /\ \E cart \in {s \in Carts : \A i \in 1..Len(s) :
                                   /\ s[i].quantity = 1
                                   /\ s[i].product = (IF i = 1 THEN "pA" ELSE "pB")} :
          carts = [u \in Users |-> IF u = "u1" THEN cart ELSE <<>>]
    /\ orders = <<>>
    /\ pc = [c \in Calls |-> "idle"]
    /\ idx = [c \in Calls |-> 0]
    /\ lines = [c \in Calls |-> <<>>]
    /\ snapshots = [c \in Calls |-> <<>>]
    /\ totalAmount = [c \in Calls |-> 0]
    /\ result = [c \in Calls |-> ""]
    /\ oid = [c \in Calls |-> NoOrder]
    /\ got = [c \in Calls |-> NoCache]
    /\ pre = [c \in Calls |-> NoPre]
    /\ wrote = [c \in Calls |-> {}]
    /\ payments = <<>>
    /\ success = [c \in Calls |-> FALSE]
    /\ target = [c \in Calls |-> ""]
    /\ loaded = [c \in Calls |-> ""]
    /\ caller = [c \in Calls |-> ""]
    /\ cartLock = [u \in Users |-> NoLock]
    /\ req = [c \in Calls |-> NoRequest]
    /\ message = [c \in Calls |-> NoMessage]
    /\ InitSide

NextCart ==
    \/ \E c \in CartCalls : CartCall(c)
    \/ \E c \in CartCalls : CartProduct(c)
    \/ \E c \in CartCalls : CartLock(c)
    \/ \E c \in CartCalls : CartLockFail(c)
    \/ \E c \in CartCalls : CartLoad(c)
    \/ \E c \in CartCalls : CartLoadFail(c)
    \/ \E c \in CartCalls : CartSave(c)
    \/ \E c \in CartCalls : CartSaveFail(c)

SpecCart == InitCart /\ [][NextCart]_vars

\* ------------------------------- a seller's product update and a checkout
NextCatalog ==
    \/ \E c \in CatalogCheckoutCalls : CheckoutGetCart(c)
    \/ \E c \in CatalogCheckoutCalls : CheckoutNoCart(c)
    \/ \E c \in CatalogCheckoutCalls : CheckoutLock(c)
    \/ \E c \in CatalogCheckoutCalls : CheckoutLockFail(c)
    \/ \E c \in CatalogCheckoutCalls : CheckoutValidate(c)
    \/ \E c \in CatalogCheckoutCalls : CheckoutInsufficient(c)
    \/ \E c \in CatalogCheckoutCalls : CheckoutProductNotFound(c)
    \/ \E c \in CatalogCheckoutCalls : CheckoutApply(c)
    \/ \E c \in CatalogCheckoutCalls : CheckoutApplyFail(c)
    \/ \E c \in CatalogCheckoutCalls : CheckoutCreate(c)
    \/ \E c \in CatalogCheckoutCalls : CheckoutCreateFail(c)
    \/ \E c \in CatalogCheckoutCalls : CheckoutClearCart(c)
    \/ \E c \in CatalogCheckoutCalls : CheckoutReturn(c)
    \/ \E c \in ProductCalls : UpdateProductFind(c)
    \/ \E c \in ProductCalls : UpdateProductRefuse(c)
    \/ \E c \in ProductCalls : UpdateProductSave(c)

SpecCatalog == Init /\ [][NextCatalog]_vars

\* ------------------------------------- the order's life: cancel and advance
\* an order of u1 in any status: its stock is out, or back in when it was cancelled
InitLife ==
    /\ \E cart \in {s \in Carts : Len(s) >= 1 /\ s[1].product = "pA"},
          status \in OrderStatuses :
          /\ \A i \in 1..Len(cart) : Sufficient(InitStock, cart[i].quantity)
          /\ orders = <<[OrderOf(cart) EXCEPT !.status = status]>>
          /\ stock = [p \in Products |->
                        IF status = OrderStatusCancelled THEN InitStock
                        ELSE InitStock - QuantityIn(cart, p)]
    /\ cache = [p \in Products |-> NoCache]
    /\ lock = [p \in Products |-> NoLock]
    /\ carts = [u \in Users |-> <<>>]
    /\ pc = [c \in Calls |-> "idle"]
    /\ idx = [c \in Calls |-> 0]
    /\ lines = [c \in Calls |-> <<>>]
    /\ snapshots = [c \in Calls |-> <<>>]
    /\ totalAmount = [c \in Calls |-> 0]
    /\ result = [c \in Calls |-> ""]
    /\ oid = [c \in Calls |-> NoOrder]
    /\ got = [c \in Calls |-> NoCache]
    /\ pre = [c \in Calls |-> NoPre]
    /\ wrote = [c \in Calls |-> {}]
    /\ payments = <<>>
    /\ success = [c \in Calls |-> FALSE]
    /\ target = [c \in Calls |-> ""]
    /\ loaded = [c \in Calls |-> ""]
    /\ caller = [c \in Calls |-> ""]
    /\ cartLock = [u \in Users |-> NoLock]
    /\ req = [c \in Calls |-> NoRequest]
    /\ message = [c \in Calls |-> NoMessage]
    /\ InitSide

NextLife ==
    \/ \E c \in LifeSellerCalls : UpdateOrderStatusCall(c)
    \/ \E c \in LifeSellerCalls : UpdateOrderStatusFind(c)
    \/ \E c \in LifeSellerCalls : UpdateOrderStatusRefuse(c)
    \/ \E c \in LifeSellerCalls : UpdateOrderStatusWrite(c)
    \/ \E c \in LifeCancelCalls : CancelFind(c)
    \/ \E c \in LifeCancelCalls : CancelRefuse(c)
    \/ \E c \in LifeCancelCalls : CancelLock(c)
    \/ \E c \in LifeCancelCalls : CancelLockFail(c)
    \/ \E c \in LifeCancelCalls : CancelRead(c)
    \/ \E c \in LifeCancelCalls : CancelReadFail(c)
    \/ \E c \in LifeCancelCalls : CancelWrite(c)
    \/ \E c \in LifeCancelCalls : CancelStatus(c)

SpecLife == InitLife /\ [][NextLife]_vars

\* ================================================================ claims
StockCalls == CheckoutCalls \cup CancelCalls

\* call c has read the stock of product p and may still write it: a checkout
\* from the validation of p's line until it returns, a cancellation between its
\* FindByID and its UpdateStock of the item
InStockSection(c, p) ==
    IF c \in CheckoutCalls
    THEN \E i \in 1..Len(snapshots[c]) : snapshots[c][i].product = p
    ELSE pc[c] = "xwrite" /\ lines[c][idx[c]].product = p

\* the step is one of call c
StepOf(c) == pc'[c] # pc[c] \/ idx'[c] # idx[c]

\* C1: in every reachable state the stored stock of every product is >= 0,
\* whatever checkouts and cancellations run concurrently on it
C1_StockNonNegative == \A p \in Products : stock[p] >= 0

\* both checkouts and the cancellation have written stock, and a product is sold out
C1_Witness ==
    /\ \A c \in StockCalls : "stock" \in wrote[c]
    /\ \E p \in Products : stock[p] = 0

C3_ApplyFailureRestoresPrefix ==
    [][\A c \in CheckoutCalls :
          (pc[c] = "apply" /\ pc'[c] = "done") =>
              /\ result'[c] = ErrCheckoutFailed
              /\ orders' = orders /\ "order" \notin wrote[c]
              /\ \A j \in RollbackRange(idx[c]) :
                    stock'[snapshots[c][j].product] = pre[c][snapshots[c][j].product]]_vars

\* C4 (as claimed): when the order creation fails after every decrement, Checkout
\* returns with the stock of every cart product back at its value before the
\* checkout, and no order exists
C4_CommitFailureRestoresAll ==
    [][\A c \in CheckoutCalls :
          (pc[c] = "create" /\ pc'[c] = "done") =>
              /\ orders' = orders /\ "order" \notin wrote[c]
              /\ \A j \in 1..Len(lines[c]) :
                    stock'[lines[c][j].product] = pre[c][lines[c][j].product]]_vars

\* C5: a Checkout that fails in the validation phase (product missing or stock
\* below the quantity) has written nothing: no stock, no order, no cart, neither
\* in the failing step nor before it
C5_ValidationFailureWritesNothing ==
    [][\A c \in CheckoutCalls :
          (pc[c] = "validate" /\ pc'[c] = "done") =>
              /\ result'[c] \in {ErrProductNotFound, ErrInsufficientStock}
              /\ stock' = stock /\ orders' = orders /\ carts' = carts
              /\ wrote[c] = {} /\ wrote'[c] = {}]_vars

\* a checkout failed on its second line, after the first line passed validation
C5_Witness ==
    \E c \in CheckoutCalls : result[c] = ErrInsufficientStock /\ idx[c] = 2

C8_SuccessfulCheckout ==
    [][\A c \in CheckoutCalls :
          /\ (pc[c] = "create" /\ pc'[c] = "clear") =>
                /\ Len(orders') = Len(orders) + 1
                /\ orders'[oid'[c]].status = OrderStatusPending
                /\ orders'[oid'[c]].user = CallUser[c]
                /\ orders'[oid'[c]].total = SumTotal(lines[c], Len(lines[c]))
                /\ Len(orders'[oid'[c]].items) = Len(lines[c])
                /\ \A j \in 1..Len(lines[c]) :
                      /\ orders'[oid'[c]].items[j].product = lines[c][j].product
                      /\ orders'[oid'[c]].items[j].quantity = lines[c][j].quantity
          /\ (pc[c] = "publish" /\ pc'[c] = "done" /\ "cart" \in wrote[c]) =>
                /\ result'[c] = Ok
                /\ carts'[CallUser[c]] = <<>>
                /\ \A j \in 1..Len(lines[c]) :
                      stock'[lines[c][j].product] =
                          pre[c][lines[c][j].product] - lines[c][j].quantity]_vars

\* C9: every application of a payment.success event that returns without error
\* leaves the order's status paid, the first time and when it is applied again,
\* and no step of ProcessPaymentResult changes any product's stock
C9_PaymentSuccessIdempotent ==
    [][\A m \in PayCalls :
          /\ StepOf(m) => stock' = stock
          /\ (pc[m] = "mstatus" /\ result'[m] = Ok) =>
                orders'[oid[m]].status = OrderStatusPaid]_vars

\* the same payment.success event has been applied twice to the order, which is paid
C9_Witness ==
    /\ \A m \in PayCalls :
          result[m] = Ok /\ success[m] /\ oid[m] = 1
    /\ orders[1].status = OrderStatusPaid

\* the statuses after paid on the seller's path
AdvancedPastPaid == {OrderStatusProcessing, OrderStatusShipping, OrderStatusShipped,
                     OrderStatusCompleted}

\* C10 (as claimed): a payment.success event that ProcessPaymentResult handles
\* for an order it loaded with a status past paid leaves the order's status as it is
C10_ReplayKeepsAdvancedStatus ==
    [][\A m \in PayCalls :
          (StepOf(m) /\ loaded[m] \in AdvancedPastPaid) =>
              orders'[oid[m]].status = orders[oid[m]].status]_vars

\* the statuses the state machine has no edge out of
TerminalStatuses == {OrderStatusCompleted, OrderStatusCancelled}

\* C11 (as claimed): once an order's status is completed or cancelled, no step
\* of CancelOrder, UpdateOrderStatus or ProcessPaymentResult changes it
C11_TerminalStatusFinal ==
    [][\A o \in 1..Len(orders) :
          orders[o].status \in TerminalStatuses =>
              orders'[o].status = orders[o].status]_vars

\* C12 (as claimed): whenever an order's stored status becomes cancelled, the
\* stored status right before that write was pending, paid or processing
C12_CancelOverwritesCancellable ==
    [][\A o \in 1..Len(orders) :
          (orders'[o].status = OrderStatusCancelled
              /\ orders[o].status # OrderStatusCancelled) =>
              orders[o].status \in CancellableStatuses]_vars

\* the statuses UpdateOrderStatus can move an order out of, and the legal moves
AdvanceableStatuses == {OrderStatusPaid, OrderStatusProcessing, OrderStatusShipping,
                        OrderStatusShipped}
LegalPairs == {<<OrderStatusPaid, OrderStatusProcessing>>,
               <<OrderStatusProcessing, OrderStatusShipping>>,
               <<OrderStatusShipping, OrderStatusShipped>>,
               <<OrderStatusShipped, OrderStatusCompleted>>}

\* call a's request is answered in this step: refused, or passed on to the write
Answered(a) == pc[a] = "ufind" /\ pc'[a] # "ufind"

\* call x's CancelOrder has loaded an order and checked it in this step
Checked(x) == pc[x] = "idle" /\ pc'[x] # "idle" /\ oid'[x] # NoOrder

\* the seller of call a owns a store that an item of the order belongs to
Authorized(a) ==
    /\ caller[a] \in DOMAIN StoreOf
    /\ \E i \in 1..Len(orders[oid[a]].items) :
          ProductStore[orders[oid[a]].items[i].product] = StoreOf[caller[a]]

\* C13: UpdateOrderStatus on an order whose status is not paid, processing,
\* shipping or shipped is refused with an error and writes nothing; CancelOrder
\* on an order whose status is not pending, paid or processing is refused with
\* an error and changes neither the order nor any stock
C13_RefusedOutsideStateMachine ==
    [][/\ \A a \in LifeSellerCalls :
             (Answered(a) /\ orders[oid[a]].status \notin AdvanceableStatuses) =>
                 /\ pc'[a] = "idle" /\ result'[a] \notin {Ok, ""}
                 /\ orders' = orders
       /\ \A x \in LifeCancelCalls :
             (Checked(x) /\ orders[oid'[x]].status \notin
                                {OrderStatusPending, OrderStatusPaid, OrderStatusProcessing}) =>
                 /\ pc'[x] = "done" /\ result'[x] \in {ErrForbidden, ErrCannotCancel}
                 /\ orders' = orders /\ stock' = stock]_vars

\* a seller request was refused for want of an edge, and the owner's
\* cancellation was refused for the order's status
C13_Witness ==
    /\ \E a \in LifeSellerCalls : result[a] = ErrNoTransition
    /\ \E x \in LifeCancelCalls : result[x] = ErrCannotCancel

\* C14: a request of an authorized seller on a loaded order goes on to the
\* write only for the pairs paid->processing, processing->shipping,
\* shipping->shipped, shipped->completed, and the write stores the requested
\* status; a status without an edge is refused with the no-transition error, any
\* other pair with the invalid-transition error, the order unchanged in both
C14_LegalPairsOnly ==
    [][\A a \in LifeSellerCalls :
          /\ (Answered(a) /\ result'[a] # ErrOrderNotFound) =>
                LET status == orders[oid[a]].status
                IN  /\ status \notin AdvanceableStatuses =>
                          result'[a] = ErrNoTransition /\ orders' = orders
                    /\ (status \in AdvanceableStatuses
                            /\ <<status, target[a]>> \notin LegalPairs) =>
                          result'[a] = ErrInvalidTransition /\ orders' = orders
                    /\ (<<status, target[a]>> \in LegalPairs /\ Authorized(a)) =>
                          \/ pc'[a] = "uwrite"
                          \/ result'[a] \in {ErrStoreNotFound, ErrForbiddenStore}
                    /\ pc'[a] = "uwrite" => <<status, target[a]>> \in LegalPairs
          /\ (pc[a] = "uwrite" /\ result'[a] = Ok) =>
                orders'[oid[a]].status = target[a]]_vars

\* a seller's request has been stored and the order is completed
C14_Witness ==
    /\ \E a \in LifeSellerCalls : result[a] = Ok
    /\ orders[1].status = OrderStatusCompleted

\* C15: UpdateOrderStatus writes the status only for a seller who owns a store
\* that a product of the order's lines belongs to; any other seller's request
\* is refused with the order unchanged, with store-not-found or forbidden when
\* the requested move is legal
C15_SellerOfTheOrderOnly ==
    [][\A a \in LifeSellerCalls :
          /\ pc[a] = "uwrite" => Authorized(a)
          /\ (Answered(a) /\ ~Authorized(a)) =>
                /\ pc'[a] = "idle" /\ result'[a] \notin {Ok, ""}
                /\ orders' = orders
                /\ (<<orders[oid[a]].status, target[a]>> \in LegalPairs
                        /\ result'[a] # ErrOrderNotFound) =>
                      /\ result'[a] \in {ErrStoreNotFound, ErrForbiddenStore}
                      /\ caller[a] \notin DOMAIN StoreOf =>
                            result'[a] = ErrStoreNotFound]_vars

\* a seller was refused as forbidden on an order with a single line
C15_Witness ==
    /\ \E a \in LifeSellerCalls : result[a] = ErrForbiddenStore
    /\ Len(orders[1].items) = 1

\* C16 (as claimed): every stock write of a CancelOrder raises the stock of the
\* line's product by exactly the line's quantity, its status write stores
\* cancelled, and a CancelOrder of the owner on a cancelled order is refused
\* with the status error and changes no stock
C16_CancelRestoresExactly ==
    [][\A x \in CancelCalls :
          /\ (pc[x] = "xwrite" /\ StepOf(x) /\ stock' # stock) =>
                LET line == lines[x][idx[x]]
                IN  stock' = [stock EXCEPT ![line.product] = @ + line.quantity]
          /\ (pc[x] = "xstatus" /\ result'[x] = Ok) =>
                orders'[oid[x]].status = OrderStatusCancelled
          /\ (Checked(x) /\ orders[oid'[x]].status = OrderStatusCancelled
                 /\ caller'[x] = orders[oid'[x]].user) =>
                result'[x] = ErrCannotCancel /\ stock' = stock]_vars

\* C17: a CancelOrder by a user who is not the order's owner is refused with
\* the forbidden error, whatever the order's status, and changes neither the
\* order nor any stock
C17_NonOwnerForbidden ==
    [][\A x \in LifeCancelCalls :
          (Checked(x) /\ caller'[x] # orders[oid'[x]].user) =>
              /\ pc'[x] = "done" /\ result'[x] = ErrForbidden
              /\ orders' = orders /\ stock' = stock]_vars

\* a user who does not own the order was refused on an order that could not
\* have been cancelled by its owner either
C17_Witness ==
    \E x \in LifeCancelCalls :
        /\ result[x] = ErrForbidden
        /\ caller[x] # orders[oid[x]].user
        /\ orders[oid[x]].status \notin CancellableStatuses

\* C18: a failed lock acquisition for a line of CancelOrder changes no stock
\* and moves the call to the next line, or to the status write after the last
\* line; the call returns only from its status write, which stores cancelled
\* when it succeeds
C18_LockFailureSkipsLine ==
    [][\A x \in CancelCalls :
          /\ (pc[x] = "xlock" /\ StepOf(x) /\ lock' = lock) =>
                /\ stock' = stock
                /\ IF idx[x] < Len(lines[x])
                   THEN pc'[x] = "xlock" /\ idx'[x] = idx[x] + 1
                   ELSE pc'[x] = "xstatus"
          /\ (pc[x] \notin {"idle", "done"} /\ pc'[x] = "done") => pc[x] = "xstatus"
          /\ (pc[x] = "xstatus" /\ result'[x] = Ok) =>
                orders'[oid[x]].status = OrderStatusCancelled]_vars

\* a cancellation that met a line's lock held by a checkout has skipped that
\* line, restored another and returned without error, the order cancelled
C18_Witness ==
    \E x \in CancelCalls :
        /\ result[x] = Ok /\ wrote[x] = {"skip", "stock", "status"}
        /\ orders[oid[x]].status = OrderStatusCancelled

\* C19: with no payment record for the order, ProcessPaymentResult does not
\* fail on the missing record: a failure event returns without error and
\* writes nothing, a success event goes on to the order status write, which
\* stores paid and returns without error
C19_NoPaymentRecordIsNoError ==
    [][\A m \in PayCalls :
          /\ (pc[m] = "mpayment" /\ StepOf(m) /\ oid[m] \notin DOMAIN payments) =>
                /\ orders' = orders /\ payments' = payments
                /\ IF success[m]
                   THEN pc'[m] = "mstatus"
                   ELSE pc'[m] = "done" /\ result'[m] = Ok
          /\ (pc[m] = "mstatus" /\ result'[m] = Ok) =>
                /\ orders'[oid[m]].status = OrderStatusPaid
                /\ payments' = payments]_vars

\* a failure event and a success event for an order without payment record
\* have both returned without error, the order is paid and there is still
\* no payment record
C19_Witness ==
    \E m, n \in PayCalls :
        /\ result[m] = Ok /\ success[m]
        /\ result[n] = Ok /\ ~success[n]
        /\ oid[m] = oid[n] /\ oid[m] \notin DOMAIN payments
        /\ orders[oid[m]].status = OrderStatusPaid

\* C20: a ProcessPaymentResult whose order lookup finds nothing returns the
\* order-not-found error and writes neither an order nor a payment record;
\* a call that goes on has loaded an existing order
C20_UnknownOrderNoWrite ==
    [][\A m \in PayCalls :
          (pc[m] = "idle" /\ StepOf(m)) =>
              /\ orders' = orders /\ payments' = payments /\ stock' = stock
              /\ \/ pc'[m] = "mpayment" /\ oid'[m] \in 1..Len(orders)
                 \/ /\ pc'[m] = "done" /\ result'[m] = ErrOrderNotFound
                    /\ oid'[m] = NoOrder]_vars

\* an event for an unknown order was refused while an order and its payment
\* record exist, both as they were created
C20_Witness ==
    \E m \in PayCalls :
        /\ result[m] = ErrOrderNotFound /\ oid[m] = NoOrder
        /\ orders[1].status = OrderStatusPending
        /\ payments = <<PaymentStatusPending>>

\* C22: a payment record that is success or failed is never changed again by a
\* payment-result event
C22_PaymentStatusTerminal ==
    [][\A o \in DOMAIN payments :
          payments[o] \in {PaymentStatusSuccess, PaymentStatusFailed} =>
              payments'[o] = payments[o]]_vars

\* C27: the first step of a Checkout either loads a cart that has items, or
\* ends the call with 'cart not found' (the load failed) or 'cart is empty'
\* (only when the cart has no items), and then no lock is taken, no product
\* is read or written and no order is created
C27_NoCartNoEffect ==
    [][\A c \in CheckoutCalls :
          (pc[c] = "idle" /\ StepOf(c)) =>
              /\ lock' = lock /\ stock' = stock /\ cache' = cache
              /\ orders' = orders /\ carts' = carts
              /\ \/ pc'[c] = "lock" /\ carts[CallUser[c]] # <<>>
                 \/ /\ pc'[c] = "done" /\ oid'[c] = NoOrder
                    /\ result'[c] \in {ErrCartNotFound, ErrCartEmpty}
                    /\ result'[c] = ErrCartEmpty => carts[CallUser[c]] = <<>>]_vars

\* one checkout was refused for an empty cart, the other because its cart
\* could not be loaded, and nothing was locked, written or created
C27_Witness ==
    \E c, d \in CheckoutCalls :
        /\ result[c] = ErrCartEmpty /\ carts[CallUser[c]] = <<>>
        /\ result[d] = ErrCartNotFound /\ carts[CallUser[d]] # <<>>
        /\ orders = <<>>
        /\ \A p \in Products : stock[p] = InitStock /\ lock[p] = NoLock

\* C26: once the order is created, the cart clearing and the event publishing
\* of a Checkout change no order and no stock whether they succeed or fail,
\* and the call returns the created order without error
C26_CleanupFailuresNotFatal ==
    [][\A c \in CheckoutCalls :
          (pc[c] \in {"clear", "publish"} /\ StepOf(c)) =>
              /\ orders' = orders /\ stock' = stock
              /\ oid'[c] = oid[c] /\ oid[c] \in 1..Len(orders)
              /\ IF pc[c] = "clear" THEN pc'[c] = "publish"
                 ELSE pc'[c] = "done" /\ result'[c] = Ok]_vars

\* a checkout has returned its order although the cart could not be cleared;
\* the order is pending and its stock is out
C26_Witness ==
    \E c \in CheckoutCalls :
        /\ result[c] = Ok /\ wrote[c] = {"stock", "order"}
        /\ carts[CallUser[c]] # <<>>
        /\ orders[oid[c]].status = OrderStatusPending
        /\ \A d \in Calls \ {c} : pc[d] = "idle"
        /\ \A p \in Products :
              stock[p] = InitStock - QuantityIn(orders[oid[c]].items, p)

\* C28: two Checkout calls of one buyer over the same cart contents (nothing
\* edits the cart) never both create an order and clear the cart
C28_OneCartOneOrder ==
    Cardinality({c \in TwinCalls : {"order", "cart"} \subseteq wrote[c]}) <= 1

\* C25: a seller's product update that asks for no stock change (UpdateImage,
\* or UpdateProduct without a stock) leaves every product's stock as it is
C25_ProductUpdateKeepsStock ==
    [][\A a \in ProductCalls :
          (pc[a] = "psave" /\ StepOf(a) /\ req[a].stock = NoStockEdit) =>
              stock' = stock]_vars

\* C23: when the cart lock cannot be acquired although no call holds it (the
\* lock store is unavailable), a cart edit still goes on to load and save
\* the cart instead of returning an error
C23_CartLockFailOpen ==
    [][\A e \in CartCalls :
          (pc[e] = "elock" /\ StepOf(e) /\ cartLock[CartCallUser[e]] = NoLock) =>
              pc'[e] = "eload"]_vars

C29_CartEditErrors ==
    [][\A e \in CartCalls :
          LET u == CartCallUser[e]
          IN  /\ (pc[e] = "eload" /\ StepOf(e) /\ req[e].op # "AddItem"
                     /\ IndexOf(carts[u], req[e].product) = 0) =>
                    /\ pc'[e] = "done" /\ carts' = carts
                    /\ result'[e] \in {ErrItemNotFound, ErrLoadCart}
              /\ result'[e] = ErrItemNotFound =>
                    IndexOf(carts[u], req[e].product) = 0 /\ req[e].op # "AddItem"
              /\ (pc[e] = "esave" /\ StepOf(e)) =>
                    /\ pc'[e] = "done"
                    /\ \/ result'[e] = Ok /\ carts'[u] = lines[e]
                       \/ result'[e] = ErrSaveCart /\ carts' = carts
              /\ (pc[e] = "idle" /\ StepOf(e) /\ req'[e].op # "RemoveItem"
                     /\ req'[e].quantity <= 0) =>
                    /\ pc'[e] = "done"
                    /\ result'[e] \in {ErrQuantity, ErrInvalidProductID}
                    /\ result'[e] = ErrInvalidProductID =>
                          req'[e].op = "AddItem" /\ req'[e].product = InvalidProductID
                    /\ carts' = carts /\ cache' = cache /\ cartLock' = cartLock]_vars

\* one edit was refused for a product that is not in the cart, the other
\* failed to save, and the cart is as it was
C29_Witness ==
    \E e, f \in CartCalls :
        /\ result[e] = ErrItemNotFound /\ req[e].op = "RemoveItem"
        /\ result[f] = ErrSaveCart /\ req[f].op = "UpdateItem"
        /\ carts["u1"] = <<[product |-> "pA", quantity |-> 1]>>

\* C21: a message whose body cannot be parsed or whose order_id is not an id
\* is handled without error and without a call of ProcessPaymentResult (no
\* order is loaded, nothing is written); a message handled without error is
\* finished, not delivered again, and the consumer is free for the next one
C21_MalformedMessageDropped ==
    [][\A k \in ConsumerCalls :
          /\ (pc[k] = "idle" /\ StepOf(k) /\ message[k] # NoMessage
                 /\ Malformed(message[k])) =>
                /\ pc'[k] = "done" /\ result'[k] = Ok /\ oid'[k] = NoOrder
                /\ orders' = orders /\ payments' = payments
          /\ (pc[k] = "done" /\ StepOf(k) /\ result[k] = Ok) =>
                message'[k] = NoMessage /\ pc'[k] = "idle"]_vars

\* the payment.success consumer has skipped a malformed message and has then
\* handled a message that made the order paid
C21_Witness ==
    /\ "skipped" \in wrote["ks"]
    /\ wrote["ks"] \subseteq {"skipped"}
    /\ orders[1].status = OrderStatusPaid
    /\ message["ks"] = NoMessage /\ pc["ks"] = "idle"

C36_LockedReadIsCurrent ==
    [][\A c \in CheckoutCalls :
          (pc[c] = "validate" /\ StepOf(c)
              /\ Len(snapshots'[c]) = Len(snapshots[c]) + 1) =>
             LET snap == snapshots'[c][Len(snapshots'[c])]
             IN  /\ lock[snap.product] = c
                 /\ snap.stock = stock[snap.product]]_vars

\* C37: a CancelOrder call that has returned an error has written no product's
\* stock
C37_CancelErrorNoStockChange ==
    \A x \in CancelCalls :
        (pc[x] = "done" /\ result[x] # Ok) => "stock" \notin wrote[x]

\* a cart with at most one line per product and every quantity at least 1
OneLinePerProduct(items) ==
    /\ \A i, j \in 1..Len(items) : items[i].product = items[j].product => i = j
    /\ \A i \in 1..Len(items) : items[i].quantity >= 1

NextTwinCancel ==
    \/ \E c \in TwinCancelCalls : CancelFind(c)
    \/ \E c \in TwinCancelCalls : CancelRefuse(c)
    \/ \E c \in TwinCancelCalls : CancelLock(c)
    \/ \E c \in TwinCancelCalls : CancelLockFail(c)
    \/ \E c \in TwinCancelCalls : CancelRead(c)
    \/ \E c \in TwinCancelCalls : CancelReadFail(c)
    \/ \E c \in TwinCancelCalls : CancelWrite(c)
    \/ \E c \in TwinCancelCalls : CancelStatus(c)

SpecTwinCancel == InitLife /\ [][NextTwinCancel]_vars

\* C35: the stock of an order's products is restored at most once: with one
\* order, whose quantities were taken from the initial stock, no product's
\* stock rises above the initial stock
C35_RestoredAtMostOnce ==
    \A p \in Products : stock[p] <= InitStock

\* ------------------------------------------------- every lock and write succeeds
\* Checkout, CancelOrder, UpdateOrderStatus and payment results, with every
\* lock acquired and every store write succeeding (the one buyer's cart never
\* asks for more than the stock)
NextConserve ==
    \/ \E c \in CatalogCheckoutCalls : CheckoutGetCart(c)
    \/ \E c \in CatalogCheckoutCalls : CheckoutNoCart(c)
    \/ \E c \in CatalogCheckoutCalls : CheckoutLock(c)
    \/ \E c \in CatalogCheckoutCalls : CheckoutValidate(c)
    \/ \E c \in CatalogCheckoutCalls : CheckoutApply(c)
    \/ \E c \in CatalogCheckoutCalls : CheckoutCreate(c)
    \/ \E c \in CatalogCheckoutCalls : CheckoutClearCart(c) /\ "cart" \in wrote'[c]
    \/ \E c \in CatalogCheckoutCalls : CheckoutReturn(c)
    \/ \E c \in CancelCalls : CancelFind(c)
    \/ \E c \in CancelCalls : CancelRefuse(c)
    \/ \E c \in CancelCalls : CancelLock(c)
    \/ \E c \in CancelCalls : CancelRead(c)
    \/ \E c \in CancelCalls : CancelWrite(c) /\ cache' # cache
    \/ \E c \in CancelCalls : CancelStatus(c) /\ result'[c] = Ok
    \/ CreatePayment
    \/ \E c \in ResultCalls : PayFind(c)
    \/ \E c \in ResultCalls : PayFindPayment(c)
    \/ \E c \in ResultCalls : PayUpdatePayment(c) /\ result'[c] # ErrUpdatePayment
    \/ \E c \in ResultCalls : PayUpdateStatus(c)
    \/ \E c \in SellerCalls : UpdateOrderStatusCall(c)
    \/ \E c \in SellerCalls : UpdateOrderStatusFind(c)
    \/ \E c \in SellerCalls : UpdateOrderStatusRefuse(c)
    \/ \E c \in SellerCalls : UpdateOrderStatusWrite(c) /\ result'[c] = Ok

SpecConserve == Init /\ [][NextConserve]_vars

\* the quantity of a product in the orders that are not cancelled
RECURSIVE Ordered(_, _)
Ordered(ords, p) ==
    IF ords = <<>> THEN 0
    ELSE (IF Head(ords).status = OrderStatusCancelled THEN 0
          ELSE QuantityIn(Head(ords).items, p)) + Ordered(Tail(ords), p)

\* no Checkout and no CancelOrder is in progress
Quiescent ==
    \A c \in CheckoutCalls \cup CancelCalls : pc[c] \in {"idle", "done"}

\* C34: stock conservation: when no Checkout or CancelOrder is in progress, the
\* stock of each product plus its quantity in the orders that are not
\* cancelled is the initial stock
C34_StockConservation ==
    Quiescent => \A p \in Products : stock[p] + Ordered(orders, p) = InitStock

\* ------------------------------------------------- two checkouts, scheduled fairly
NextPair ==
    \/ \E c \in CheckoutCalls : CheckoutGetCart(c)
    \/ \E c \in CheckoutCalls : CheckoutNoCart(c)
    \/ \E c \in CheckoutCalls : CheckoutLock(c)
    \/ \E c \in CheckoutCalls : CheckoutLockFail(c)
    \/ \E c \in CheckoutCalls : CheckoutValidate(c)
    \/ \E c \in CheckoutCalls : CheckoutInsufficient(c)
    \/ \E c \in CheckoutCalls : CheckoutProductNotFound(c)
    \/ \E c \in CheckoutCalls : CheckoutApply(c)
    \/ \E c \in CheckoutCalls : CheckoutApplyFail(c)
    \/ \E c \in CheckoutCalls : CheckoutCreate(c)
    \/ \E c \in CheckoutCalls : CheckoutCreateFail(c)
    \/ \E c \in CheckoutCalls : CheckoutClearCart(c)
    \/ \E c \in CheckoutCalls : CheckoutReturn(c)

\* a request that has started keeps running: every storage call returns, and
\* mutex.Lock returns once the key is free or its retries are used up
PairFairness ==
    \A c \in CheckoutCalls :
        /\ WF_vars(CheckoutLock(c) \/ CheckoutLockFail(c))
        /\ WF_vars(CheckoutValidate(c) \/ CheckoutInsufficient(c)
                      \/ CheckoutProductNotFound(c))
        /\ WF_vars(CheckoutApply(c) \/ CheckoutApplyFail(c))
        /\ WF_vars(CheckoutCreate(c) \/ CheckoutCreateFail(c))
        /\ WF_vars(CheckoutClearCart(c))
        /\ WF_vars(CheckoutReturn(c))

SpecPair == Init /\ [][NextPair]_vars

SpecPairFair == SpecPair /\ PairFairness

\* C31: a Checkout that has started returns, committed or failed, and holds
\* none of the stock locks then
C31_CheckoutTerminates ==
    \A c \in CheckoutCalls :
        (pc[c] \notin {"idle", "done"}) ~>
            (pc[c] = "done" /\ result[c] # "" /\ \A p \in Products : lock[p] # c)

\* the two calls have carts with the same two products in opposite orders, each
\* holds the lock of its first product and asks for the lock the other holds
C31_Witness ==
    /\ pc["c1"] = "lock" /\ pc["c2"] = "lock"
    /\ lines["c1"][1].product = "pA" /\ lines["c1"][2].product = "pB"
    /\ lines["c2"][1].product = "pB" /\ lines["c2"][2].product = "pA"
    /\ lock = [p \in Products |-> IF p = "pA" THEN "c1" ELSE "c2"]

\* ------------------------------------------------- cartRepository
\* the buyer of the repository calls, and the carts SaveCart is called with
RepoUser == "u1"
RepoCarts == {s \in Carts : Len(s) <= 1}

\* the error of the database call, returned as it is
ErrDatabase == "database error"

\* the entry cache.Set stores under the cart key
Cached(items) == [present |-> TRUE, items |-> items]

\* GetCart: cache.Get finds the entry and the cart is returned from it
RepoGetHit(c) ==
    /\ pc[c] = "idle"
    /\ cartCache[RepoUser].present
    /\ lines' = [lines EXCEPT ![c] = cartCache[RepoUser].items]
    /\ pc' = [pc EXCEPT ![c] = "done"]
    /\ result' = [result EXCEPT ![c] = Ok]
    /\ UNCHANGED <<payVars, stock, cache, lock, carts, orders, idx, snapshots,
                   totalAmount, oid, got, loaded, caller, pre, wrote, edgeVars>>
    /\ UNCHANGED sideVars

\* GetCart: no entry under the key; the rows are read from cart_items
RepoGetRows(c) ==
    /\ pc[c] = "idle"
    /\ ~cartCache[RepoUser].present
    /\ lines' = [lines EXCEPT ![c] = carts[RepoUser]]
    /\ pc' = [pc EXCEPT ![c] = "gset"]
    /\ UNCHANGED <<payVars, stock, cache, lock, carts, orders, idx, snapshots,
                   totalAmount, result, oid, got, loaded, caller, pre, wrote,
                   edgeVars>>
    /\ UNCHANGED sideVars

\* GetCart: cache.Get fails and the rows are read though an entry is there
RepoGetRowsCacheDown(c) ==
    /\ pc[c] = "idle"
    /\ cartCache[RepoUser].present
    /\ lines' = [lines EXCEPT ![c] = carts[RepoUser]]
    /\ pc' = [pc EXCEPT ![c] = "gset"]
    /\ UNCHANGED <<payVars, stock, cache, lock, carts, orders, idx, snapshots,
                   totalAmount, result, oid, got, loaded, caller, pre, wrote,
                   edgeVars>>
    /\ UNCHANGED sideVars

\* GetCart: the query fails
RepoGetFail(c) ==
    /\ pc[c] = "idle"
    /\ pc' = [pc EXCEPT ![c] = "done"]
    /\ result' = [result EXCEPT ![c] = ErrDatabase]
    /\ UNCHANGED <<payVars, stock, cache, lock, carts, orders, idx, lines,
                   snapshots, totalAmount, oid, got, loaded, caller, pre, wrote,
                   edgeVars>>
    /\ UNCHANGED sideVars

\* GetCart: cache.Set of the cart built from the rows; the cart is returned
RepoGetSet(c) ==
    /\ pc[c] = "gset"
    /\ cartCache' = [cartCache EXCEPT ![RepoUser] = Cached(lines[c])]
    /\ pc' = [pc EXCEPT ![c] = "done"]
    /\ result' = [result EXCEPT ![c] = Ok]
    /\ UNCHANGED <<payVars, stock, cache, lock, carts, orders, idx, lines,
                   snapshots, totalAmount, oid, got, loaded, caller, pre, wrote,
                   edgeVars>>
    /\ UNCHANGED <<webVars, limitVars>>

\* GetCart: cache.Set fails, its error is dropped; the cart is returned
RepoGetSetFail(c) ==
    /\ pc[c] = "gset"
    /\ pc' = [pc EXCEPT ![c] = "done"]
    /\ result' = [result EXCEPT ![c] = Ok]
    /\ UNCHANGED <<payVars, stock, cache, lock, carts, orders, idx, lines,
                   snapshots, totalAmount, oid, got, loaded, caller, pre, wrote,
                   edgeVars>>
    /\ UNCHANGED sideVars

\* SaveCart: the transaction deletes the buyer's rows and inserts the items
RepoSaveCommit(c) ==
    /\ pc[c] = "idle"
    /\ \E cart \in RepoCarts :
          /\ lines' = [lines EXCEPT ![c] = cart]
          /\ carts' = [carts EXCEPT ![RepoUser] = cart]
    /\ pc' = [pc EXCEPT ![c] = "vset"]
    /\ UNCHANGED <<payVars, stock, cache, lock, orders, idx, snapshots,
                   totalAmount, result, oid, got, loaded, caller, pre, wrote,
                   edgeVars>>
    /\ UNCHANGED sideVars

\* SaveCart: the transaction fails and is rolled back; the error is returned
RepoSaveFail(c) ==
    /\ pc[c] = "idle"
    /\ \E cart \in RepoCarts : lines' = [lines EXCEPT ![c] = cart]
    /\ pc' = [pc EXCEPT ![c] = "done"]
    /\ result' = [result EXCEPT ![c] = ErrDatabase]
    /\ UNCHANGED <<payVars, stock, cache, lock, carts, orders, idx, snapshots,
                   totalAmount, oid, got, loaded, caller, pre, wrote, edgeVars>>
    /\ UNCHANGED sideVars

\* SaveCart: cache.Set of the saved cart; nil is returned
RepoSaveSet(c) ==
    /\ pc[c] = "vset"
    /\ cartCache' = [cartCache EXCEPT ![RepoUser] = Cached(lines[c])]
    /\ pc' = [pc EXCEPT ![c] = "done"]
    /\ result' = [result EXCEPT ![c] = Ok]
    /\ UNCHANGED <<payVars, stock, cache, lock, carts, orders, idx, lines,
                   snapshots, totalAmount, oid, got, loaded, caller, pre, wrote,
                   edgeVars>>
    /\ UNCHANGED <<webVars, limitVars>>

\* SaveCart: cache.Set fails, its error is dropped; nil is returned
RepoSaveSetFail(c) ==
    /\ pc[c] = "vset"
    /\ pc' = [pc EXCEPT ![c] = "done"]
    /\ result' = [result EXCEPT ![c] = Ok]
    /\ UNCHANGED <<payVars, stock, cache, lock, carts, orders, idx, lines,
                   snapshots, totalAmount, oid, got, loaded, caller, pre, wrote,
                   edgeVars>>
    /\ UNCHANGED sideVars

\* DeleteCart: the buyer's rows are deleted
RepoDeleteRows(c) ==
    /\ pc[c] = "idle"
    /\ carts' = [carts EXCEPT ![RepoUser] = <<>>]
    /\ pc' = [pc EXCEPT ![c] = "ddel"]
    /\ UNCHANGED <<payVars, stock, cache, lock, orders, idx, lines, snapshots,
                   totalAmount, result, oid, got, loaded, caller, pre, wrote,
                   edgeVars>>
    /\ UNCHANGED sideVars

\* DeleteCart: the delete fails; the error is returned
RepoDeleteFail(c) ==
    /\ pc[c] = "idle"
    /\ pc' = [pc EXCEPT ![c] = "done"]
    /\ result' = [result EXCEPT ![c] = ErrDatabase]
    /\ UNCHANGED <<payVars, stock, cache, lock, carts, orders, idx, lines,
                   snapshots, totalAmount, oid, got, loaded, caller, pre, wrote,
                   edgeVars>>
    /\ UNCHANGED sideVars

\* DeleteCart: cache.Delete of the cart key; nil is returned
RepoDeleteCache(c) ==
    /\ pc[c] = "ddel"
    /\ cartCache' = [cartCache EXCEPT ![RepoUser] = NoCart]
    /\ pc' = [pc EXCEPT ![c] = "done"]
    /\ result' = [result EXCEPT ![c] = Ok]
    /\ UNCHANGED <<payVars, stock, cache, lock, carts, orders, idx, lines,
                   snapshots, totalAmount, oid, got, loaded, caller, pre, wrote,
                   edgeVars>>
    /\ UNCHANGED <<webVars, limitVars>>

\* DeleteCart: cache.Delete fails, its error is dropped; nil is returned
RepoDeleteCacheFail(c) ==
    /\ pc[c] = "ddel"
    /\ pc' = [pc EXCEPT ![c] = "done"]
    /\ result' = [result EXCEPT ![c] = Ok]
    /\ UNCHANGED <<payVars, stock, cache, lock, carts, orders, idx, lines,
                   snapshots, totalAmount, oid, got, loaded, caller, pre, wrote,
                   edgeVars>>
    /\ UNCHANGED sideVars

\* the caller has the return value; the next call of the kind may start
RepoReturn(c) ==
    /\ pc[c] = "done"
    /\ pc' = [pc EXCEPT ![c] = "idle"]
    /\ result' = [result EXCEPT ![c] = ""]
    /\ lines' = [lines EXCEPT ![c] = <<>>]
    /\ UNCHANGED <<payVars, stock, cache, lock, carts, orders, idx, snapshots,
                   totalAmount, oid, got, loaded, caller, pre, wrote, edgeVars>>
    /\ UNCHANGED sideVars

\* the state at start-up, with nothing in any cart
InitEdge ==
    /\ stock = [p \in Products |-> InitStock]
    /\ cache = [p \in Products |-> NoCache]
    /\ lock = [p \in Products |-> NoLock]
    /\ carts = [u \in Users |-> <<>>]
    /\ orders = <<>>
    /\ pc = [c \in Calls |-> "idle"]
    /\ idx = [c \in Calls |-> 0]
    /\ lines = [c \in Calls |-> <<>>]
    /\ snapshots = [c \in Calls |-> <<>>]
    /\ totalAmount = [c \in Calls |-> 0]
    /\ result = [c \in Calls |-> ""]
    /\ oid = [c \in Calls |-> NoOrder]
    /\ got = [c \in Calls |-> NoCache]
    /\ pre = [c \in Calls |-> NoPre]
    /\ wrote = [c \in Calls |-> {}]
    /\ payments = <<>>
    /\ success = [c \in Calls |-> FALSE]
    /\ target = [c \in Calls |-> ""]
    /\ loaded = [c \in Calls |-> ""]
    /\ caller = [c \in Calls |-> ""]
    /\ cartLock = [u \in Users |-> NoLock]
    /\ req = [c \in Calls |-> NoRequest]
    /\ message = [c \in Calls |-> NoMessage]
    /\ InitSide

\* one GetCart, one SaveCart and one DeleteCart at a time, each call again and
\* again, every cache call succeeding
NextCartStore ==
    \/ \E c \in RepoGetCalls : RepoGetHit(c)
    \/ \E c \in RepoGetCalls : RepoGetRows(c)
    \/ \E c \in RepoGetCalls : RepoGetFail(c)
    \/ \E c \in RepoGetCalls : RepoGetSet(c)
    \/ \E c \in RepoSaveCalls : RepoSaveCommit(c)
    \/ \E c \in RepoSaveCalls : RepoSaveFail(c)
    \/ \E c \in RepoSaveCalls : RepoSaveSet(c)
    \/ \E c \in RepoDeleteCalls : RepoDeleteRows(c)
    \/ \E c \in RepoDeleteCalls : RepoDeleteFail(c)
    \/ \E c \in RepoDeleteCalls : RepoDeleteCache(c)
    \/ \E c \in RepoCalls : RepoReturn(c)

SpecCartStore == InitEdge /\ [][NextCartStore]_vars

\* the same with the cache calls failing or not
NextCartStoreDown ==
    \/ \E c \in RepoGetCalls : RepoGetHit(c)
    \/ \E c \in RepoGetCalls : RepoGetRows(c)
    \/ \E c \in RepoGetCalls : RepoGetFail(c)
    \/ \E c \in RepoGetCalls : RepoGetSet(c)
    \/ \E c \in RepoSaveCalls : RepoSaveCommit(c)
    \/ \E c \in RepoSaveCalls : RepoSaveFail(c)
    \/ \E c \in RepoSaveCalls : RepoSaveSet(c)
    \/ \E c \in RepoDeleteCalls : RepoDeleteRows(c)
    \/ \E c \in RepoDeleteCalls : RepoDeleteFail(c)
    \/ \E c \in RepoDeleteCalls : RepoDeleteCache(c)
    \/ \E c \in RepoCalls : RepoReturn(c)
    \/ \E c \in RepoGetCalls : RepoGetRowsCacheDown(c)
    \/ \E c \in RepoGetCalls : RepoGetSetFail(c)
    \/ \E c \in RepoSaveCalls : RepoSaveSetFail(c)
    \/ \E c \in RepoDeleteCalls : RepoDeleteCacheFail(c)

SpecCartStoreDown == InitEdge /\ [][NextCartStoreDown]_vars

\* a SaveCart or a DeleteCart of the buyer is between its database step and
\* its cache step
BetweenSteps ==
    \/ \E c \in RepoSaveCalls : pc[c] = "vset"
    \/ \E c \in RepoDeleteCalls : pc[c] = "ddel"

\* C32: outside the two steps of a SaveCart (and of a DeleteCart), a cached
\* cart has the lines of the buyer's cart rows
C32_CacheMatchesRows ==
    (cartCache[RepoUser].present /\ ~BetweenSteps) =>
        cartCache[RepoUser].items = carts[RepoUser]

\* C33: a SaveCart that returns nil has made the rows the saved items at its
\* commit and leaves the cache holding the saved cart; one that returns the
\* transaction's error has changed neither the rows nor the cache
C33_SaveAllOrNothing ==
    [][\A c \in RepoSaveCalls :
          /\ (pc[c] = "idle" /\ pc'[c] = "vset") =>
                carts'[RepoUser] = lines'[c] /\ cartCache' = cartCache
          /\ (pc[c] = "vset" /\ pc'[c] = "done") =>
                result'[c] = Ok /\ cartCache'[RepoUser] = Cached(lines[c])
          /\ (pc[c] = "idle" /\ pc'[c] = "done") =>
                /\ result'[c] = ErrDatabase
                /\ carts' = carts /\ cartCache' = cartCache]_vars

\* ------------------------------------------------- RateLimiter
\* limit and window (in milliseconds) of the limiter, and the most requests
\* of the identifier that arrive within one millisecond
RateLimit == 1
Window == 2
MaxBurst == 3

ErrRateLimited == "rate limit exceeded"

\* the sorted set after ZRemRangeByScore(0, now - window) and ZAdd(score now,
\* member now): a member that is there already is not added again
Pipeline(z, t) == {m \in z : m > t - Window} \cup {t}

\* allow: now is read and the pipeline runs; ZCard's reply is the count
LimitAllow(c) ==
    /\ pc[c] = "idle"
    /\ passed[now] < MaxBurst
    /\ zset' = Pipeline(zset, now)
    /\ idx' = [idx EXCEPT ![c] = now]
    /\ got' = [got EXCEPT ![c] = Cardinality(Pipeline(zset, now))]
    /\ pc' = [pc EXCEPT ![c] = "lcount"]
    /\ UNCHANGED <<payVars, stock, cache, lock, carts, orders, lines, snapshots,
                   totalAmount, result, oid, loaded, caller, pre, wrote, edgeVars>>
    /\ UNCHANGED <<cartCache, webVars, now, passed>>

\* allow: pipe.Exec fails
LimitAllowFail(c) ==
    /\ pc[c] = "idle"
    /\ pc' = [pc EXCEPT ![c] = "lerr"]
    /\ UNCHANGED <<payVars, stock, cache, lock, carts, orders, idx, lines,
                   snapshots, totalAmount, result, oid, got, loaded, caller, pre,
                   wrote, edgeVars>>
    /\ UNCHANGED sideVars

\* Limit: allow returned an error and the request goes to the next handler
LimitFailOpen(c) ==
    /\ pc[c] = "lerr"
    /\ pc' = [pc EXCEPT ![c] = "done"]
    /\ result' = [result EXCEPT ![c] = Ok]
    /\ UNCHANGED <<payVars, stock, cache, lock, carts, orders, idx, lines,
                   snapshots, totalAmount, oid, got, loaded, caller, pre, wrote,
                   edgeVars>>
    /\ UNCHANGED sideVars

\* Limit: count <= limit and the request goes to the next handler
LimitPass(c) ==
    /\ pc[c] = "lcount"
    /\ got[c] <= RateLimit
    /\ passed' = [passed EXCEPT ![idx[c]] = @ + 1]
    /\ pc' = [pc EXCEPT ![c] = "done"]
    /\ result' = [result EXCEPT ![c] = Ok]
    /\ got' = [got EXCEPT ![c] = NoCache]
    /\ UNCHANGED <<payVars, stock, cache, lock, carts, orders, idx, lines,
                   snapshots, totalAmount, oid, loaded, caller, pre, wrote,
                   edgeVars>>
    /\ UNCHANGED <<cartCache, webVars, zset, now>>

\* Limit: count > limit and the request gets 429
LimitReject(c) ==
    /\ pc[c] = "lcount"
    /\ got[c] > RateLimit
    /\ pc' = [pc EXCEPT ![c] = "done"]
    /\ result' = [result EXCEPT ![c] = ErrRateLimited]
    /\ got' = [got EXCEPT ![c] = NoCache]
    /\ UNCHANGED <<payVars, stock, cache, lock, carts, orders, idx, lines,
                   snapshots, totalAmount, oid, loaded, caller, pre, wrote,
                   edgeVars>>
    /\ UNCHANGED sideVars

\* the response is out; the identifier's next request may arrive
LimitReturn(c) ==
    /\ pc[c] = "done"
    /\ pc' = [pc EXCEPT ![c] = "idle"]
    /\ result' = [result EXCEPT ![c] = ""]
    /\ idx' = [idx EXCEPT ![c] = 0]
    /\ UNCHANGED <<payVars, stock, cache, lock, carts, orders, lines,
                   snapshots, totalAmount, oid, got, loaded, caller, pre, wrote,
                   edgeVars>>
    /\ UNCHANGED sideVars

\* a millisecond passes
Tick ==
    /\ now < MaxClock
    /\ now' = now + 1
    /\ UNCHANGED <<payVars, stock, cache, lock, carts, orders, pc, idx, result,
                   oid, caller, wrote, frame, edgeVars>>
    /\ UNCHANGED <<cartCache, webVars, zset, passed>>

NextLimit ==
    \/ \E c \in LimitCalls : LimitAllow(c)
    \/ \E c \in LimitCalls : LimitAllowFail(c)
    \/ \E c \in LimitCalls : LimitFailOpen(c)
    \/ \E c \in LimitCalls : LimitPass(c)
    \/ \E c \in LimitCalls : LimitReject(c)
    \/ \E c \in LimitCalls : LimitReturn(c)
    \/ Tick

SpecLimit == InitEdge /\ [][NextLimit]_vars

\* the requests let through in the window that starts at millisecond t
RECURSIVE PassedFrom(_, _)
PassedFrom(t, n) ==
    IF n = 0 \/ t > MaxClock THEN 0 ELSE passed[t] + PassedFrom(t + 1, n - 1)

\* C40: in every window of the window's length, at most limit requests of the
\* identifier were let through after a pipeline that succeeded
C40_AtMostLimitPerWindow ==
    \A t \in 0..MaxClock : PassedFrom(t, Window) <= RateLimit

\* ------------------------------------------------- Timeout middleware
\* the most calls the handler makes on the timeoutWriter
MaxOps == 4

\* what the underlying ResponseWriter is given
HandlerTokens == {"status", "body"}
TimeoutTokens == {"504", "request timed out"}

Has(tokens) == \E i \in 1..Len(sent) : sent[i] \in tokens

\* the middleware starts the handler goroutine and waits in the select
TimeoutStart(t) ==
    /\ pc[t] = "idle"
    /\ pc' = [c \in Calls |-> IF c = t THEN "select"
                              ELSE IF c \in HandlerCalls THEN "run" ELSE pc[c]]
    /\ UNCHANGED <<payVars, stock, cache, lock, carts, orders, idx, result, oid,
                   caller, wrote, frame, edgeVars>>
    /\ UNCHANGED sideVars

\* the handler calls tw.Header().Set: the promoted method of the underlying
\* writer, a write of its header map without the mutex
HandlerHeaderSet(h) ==
    /\ pc[h] = "run"
    /\ idx[h] < MaxOps
    /\ idx' = [idx EXCEPT ![h] = @ + 1]
    /\ headers' = headers \cup {h}
    /\ pc' = [pc EXCEPT ![h] = "hset"]
    /\ UNCHANGED <<payVars, stock, cache, lock, carts, orders, result, oid,
                   caller, wrote, frame, edgeVars>>
    /\ UNCHANGED <<cartCache, wroteHeader, timedOut, sent, limitVars>>

\* the map write of the handler is over
HandlerHeaderSetEnd(h) ==
    /\ pc[h] = "hset"
    /\ headers' = headers \ {h}
    /\ pc' = [pc EXCEPT ![h] = "run"]
    /\ UNCHANGED <<payVars, stock, cache, lock, carts, orders, idx, result, oid,
                   caller, wrote, frame, edgeVars>>
    /\ UNCHANGED <<cartCache, wroteHeader, timedOut, sent, limitVars>>

\* timeoutWriter.WriteHeader, under the mutex
HandlerWriteHeader(h) ==
    /\ pc[h] = "run"
    /\ idx[h] < MaxOps
    /\ idx' = [idx EXCEPT ![h] = @ + 1]
    /\ IF ~timedOut /\ ~wroteHeader
       THEN /\ wroteHeader' = TRUE
            /\ sent' = Append(sent, "status")
       ELSE UNCHANGED <<wroteHeader, sent>>
    /\ UNCHANGED <<payVars, stock, cache, lock, carts, orders, pc, result, oid,
                   caller, wrote, frame, edgeVars>>
    /\ UNCHANGED <<cartCache, timedOut, headers, limitVars>>

\* timeoutWriter.Write, under the mutex; the underlying Write sends the
\* status line first when none has been sent
HandlerWrite(h) ==
    /\ pc[h] = "run"
    /\ idx[h] < MaxOps
    /\ idx' = [idx EXCEPT ![h] = @ + 1]
    /\ IF timedOut
       THEN UNCHANGED <<wroteHeader, sent>>
       ELSE /\ wroteHeader' = TRUE
            /\ sent' = IF Has({"status"}) THEN Append(sent, "body")
                       ELSE sent \o <<"status", "body">>
    /\ UNCHANGED <<payVars, stock, cache, lock, carts, orders, pc, result, oid,
                   caller, wrote, frame, edgeVars>>
    /\ UNCHANGED <<cartCache, timedOut, headers, limitVars>>

\* next.ServeHTTP returns and done is closed
HandlerReturn(h) ==
    /\ pc[h] = "run"
    /\ pc' = [pc EXCEPT ![h] = "closed"]
    /\ UNCHANGED <<payVars, stock, cache, lock, carts, orders, idx, result, oid,
                   caller, wrote, frame, edgeVars>>
    /\ UNCHANGED sideVars

\* select takes <-done: the middleware returns, and the server sends the
\* status line of a handler that wrote nothing
TimeoutDone(t) ==
    /\ pc[t] = "select"
    /\ \A h \in HandlerCalls : pc[h] = "closed"
    /\ sent' = IF sent = <<>> THEN <<"status">> ELSE sent
    /\ pc' = [pc EXCEPT ![t] = "done"]
    /\ UNCHANGED <<payVars, stock, cache, lock, carts, orders, idx, result, oid,
                   caller, wrote, frame, edgeVars>>
    /\ UNCHANGED <<cartCache, wroteHeader, timedOut, headers, limitVars>>

\* select takes <-ctx.Done(): under the mutex, return when the handler has
\* started to write, else set timedOut
TimeoutExpire(t) ==
    /\ pc[t] = "select"
    /\ IF wroteHeader
       THEN pc' = [pc EXCEPT ![t] = "done"] /\ UNCHANGED timedOut
       ELSE pc' = [pc EXCEPT ![t] = "t504"] /\ timedOut' = TRUE
    /\ UNCHANGED <<payVars, stock, cache, lock, carts, orders, idx, result, oid,
                   caller, wrote, frame, edgeVars>>
    /\ UNCHANGED <<cartCache, wroteHeader, sent, headers, limitVars>>

\* response.ErrorResponse(w, 504): writeJSON sets Content-Type in the header
\* map of the underlying writer
TimeoutHeaderSet(t) ==
    /\ pc[t] = "t504"
    /\ headers' = headers \cup {t}
    /\ pc' = [pc EXCEPT ![t] = "thset"]
    /\ UNCHANGED <<payVars, stock, cache, lock, carts, orders, idx, result, oid,
                   caller, wrote, frame, edgeVars>>
    /\ UNCHANGED <<cartCache, wroteHeader, timedOut, sent, limitVars>>

\* the map write of the middleware is over
TimeoutHeaderSetEnd(t) ==
    /\ pc[t] = "thset"
    /\ headers' = headers \ {t}
    /\ pc' = [pc EXCEPT ![t] = "twrite"]
    /\ UNCHANGED <<payVars, stock, cache, lock, carts, orders, idx, result, oid,
                   caller, wrote, frame, edgeVars>>
    /\ UNCHANGED <<cartCache, wroteHeader, timedOut, sent, limitVars>>

\* writeJSON goes on: w.WriteHeader(504) and the encoded error body
TimeoutWrite(t) ==
    /\ pc[t] = "twrite"
    /\ sent' = sent \o <<"504", "request timed out">>
    /\ pc' = [pc EXCEPT ![t] = "done"]
    /\ UNCHANGED <<payVars, stock, cache, lock, carts, orders, idx, result, oid,
                   caller, wrote, frame, edgeVars>>
    /\ UNCHANGED <<cartCache, wroteHeader, timedOut, headers, limitVars>>

\* both goroutines are inside a write of the same header map: a data race,
\* which the runtime may end with "fatal error: concurrent map writes" (the
\* process exits) or not notice
ConcurrentMapWrites ==
    /\ Cardinality(headers) > 1
    /\ pc' = [c \in Calls |-> IF c \in headers THEN "fatal" ELSE pc[c]]
    /\ headers' = {}
    /\ UNCHANGED <<payVars, stock, cache, lock, carts, orders, idx, result, oid,
                   caller, wrote, frame, edgeVars>>
    /\ UNCHANGED <<cartCache, wroteHeader, timedOut, sent, limitVars>>

NextTimeout ==
    \/ \E t \in TimeoutCalls : TimeoutStart(t)
    \/ \E h \in HandlerCalls : HandlerHeaderSet(h)
    \/ \E h \in HandlerCalls : HandlerHeaderSetEnd(h)
    \/ \E h \in HandlerCalls : HandlerWriteHeader(h)
    \/ \E h \in HandlerCalls : HandlerWrite(h)
    \/ \E h \in HandlerCalls : HandlerReturn(h)
    \/ \E t \in TimeoutCalls : TimeoutDone(t)
    \/ \E t \in TimeoutCalls : TimeoutExpire(t)
    \/ \E t \in TimeoutCalls : TimeoutHeaderSet(t)
    \/ \E t \in TimeoutCalls : TimeoutHeaderSetEnd(t)
    \/ \E t \in TimeoutCalls : TimeoutWrite(t)
    \/ ConcurrentMapWrites

SpecTimeout == InitEdge /\ [][NextTimeout]_vars

\* the middleware has returned, or the process has exited
RequestOver == \E t \in TimeoutCalls : pc[t] \in {"done", "fatal"}

\* C39: the client never gets both the handler's and the timeout response, a
\* request that is over has got one of them, the timeout response is written
\* only after timedOut was set with nothing written, and once timedOut is set
\* no call of the handler changes what is sent
C39_ExactlyOneResponse ==
    [][/\ ~(Has(HandlerTokens)' /\ Has(TimeoutTokens)')
       /\ RequestOver' => (Has(HandlerTokens)' \/ Has(TimeoutTokens)')
       /\ Has(TimeoutTokens)' => timedOut'
       /\ (timedOut /\ \E h \in HandlerCalls : idx'[h] # idx[h]) => sent' = sent
       /\ \A t \in TimeoutCalls :
             (pc[t] = "select" /\ pc'[t] # "select" /\ wroteHeader) =>
                (pc'[t] = "done" /\ ~timedOut')]_vars

====
